---- MODULE Spec2Model ----
(***************************************************************************)
(* A model of the FileJump synchronisation client: FjOperations (folder    *)
(* provisioning, write, delete, read_directory_tree) on top of FileJumpApi *)
(* (create_folder, post_file, read, delete_files, read_directory_tree) and *)
(* of the remote service they talk to.                                     *)
(*                                                                         *)
(* Names are Python strings, modelled as TLA+ strings; Python lists are    *)
(* sequences; a dict is a function.  The remote service is a set of entry  *)
(* records.  Every remote request the client issues is appended to log.    *)
(***************************************************************************)
EXTENDS Integers, Sequences, FiniteSets, TLC

VARIABLES
    remote,          \* the service: the set of entries it holds
    nextId,          \* the service: the id it gives the next entry it creates
    cancel,          \* FileJumpApi.cancel
    all_fj_entries,  \* FjOperations._all_fj_entries (None, or the cached list)
    all_fj_folders,  \* FjOperations._all_fj_folders (None, or the cached list)
    log,             \* history: the remote requests issued, in order
    pc,              \* the position of the running operation ("idle": none)
    result,          \* how the last finished operation ended
    frame,           \* the local variables of the running (or last) operation
    ops,             \* history: how many operations were started
    prev,            \* history: the operation before the running (or last) one
    segment,         \* the mangling rule alone: its input
    mangled,         \* the mangling rule alone: its output (None before)
    token,           \* FileJumpApi.token (None, or the access token)
    reader           \* a LocalFileReader (None before it is made)

vars == <<remote, nextId, cancel, all_fj_entries, all_fj_folders, log, pc,
          result, frame, ops, prev, segment, mangled, token, reader>>

\* Python's None, and a value that is not None, for what may hold either
None == <<>>
Some(v) == <<v>>

(***************************************************************************)
(* Python string primitives.                                               *)
(***************************************************************************)

\* n copies of the one-character string ch
RECURSIVE Repeat(_, _)
Repeat(ch, n) == IF n <= 0 THEN "" ELSE ch \o Repeat(ch, n - 1)

\* str.rjust: the padding goes in front
rjust(s, width, fillchar) ==
    IF Len(s) >= width THEN s ELSE Repeat(fillchar, width - Len(s)) \o s

\* str.ljust(width, fillchar)
ljust(s, width, fillchar) ==
    IF Len(s) >= width THEN s ELSE s \o Repeat(fillchar, width - Len(s))

\* the position of the first sep at or after position i of s, 0 when none
RECURSIVE Find(_, _, _)
Find(s, sep, i) ==
    IF i > Len(s) THEN 0
    ELSE IF SubSeq(s, i, i) = sep THEN i
    ELSE Find(s, sep, i + 1)

\* str.split(sep) for a one-character sep: "" splits to <<"">>
RECURSIVE split(_, _)
split(s, sep) ==
    LET k == Find(s, sep, 1) IN
    IF k = 0 THEN <<s>>
    ELSE <<SubSeq(s, 1, k - 1)>> \o split(SubSeq(s, k + 1, Len(s)), sep)

\* sep.join(list)
RECURSIVE join(_, _)
join(sep, list) ==
    IF list = <<>> THEN ""
    ELSE IF Len(list) = 1 THEN list[1]
    ELSE list[1] \o sep \o join(sep, Tail(list))

(***************************************************************************)
(* The mangling rule of create_folders: a segment shorter than 3           *)
(* characters is right-padded with "_" to 3 characters.                    *)
(***************************************************************************)
MinFolderLen == 3

MangleLeft(folder) ==
    IF Len(folder) < MinFolderLen THEN rjust(folder, MinFolderLen, "_") ELSE folder

Mangle(folder) ==
    IF Len(folder) < MinFolderLen THEN ljust(folder, MinFolderLen, "_") ELSE folder

(***************************************************************************)
(* The remote service.  An entry is                                        *)
(*   [id, name, type ("file" or "folder"), parent_id (0: the root),        *)
(*    description];                                                        *)
(* a listing gives each entry with its path, the ids from the root down to *)
(* its own joined by "/".                                                  *)
(***************************************************************************)
RootId == 0

Ids(rem) == {e.id : e \in rem}

EntryOf(rem, id) == CHOOSE e \in rem : e.id = id

\* whether the entry with this id lies in the subtree of one of ids
RECURSIVE UnderAny(_, _, _)
UnderAny(rem, id, ids) ==
    \/ id \in ids
    \/ /\ id \in Ids(rem)
       /\ EntryOf(rem, id).parent_id # RootId
       /\ UnderAny(rem, EntryOf(rem, id).parent_id, ids)

\* POST file-entries/delete answered 200: the entries and what they hold go
ServiceDelete(rem, ids) == {e \in rem : ~UnderAny(rem, e.id, ids)}

\* a set of numbers as the list in rising order
RECURSIVE SortedSeq(_)
SortedSeq(S) ==
    IF S = {} THEN <<>>
    ELSE LET m == CHOOSE x \in S : \A y \in S : x <= y
         IN  <<m>> \o SortedSeq(S \ {m})

\* the 'path' the service reports for an entry
RECURSIVE PathOf(_, _)
PathOf(rem, id) ==
    LET parent == EntryOf(rem, id).parent_id
    IN  IF parent = RootId \/ parent \notin Ids(rem) THEN ToString(id)
        ELSE PathOf(rem, parent) \o "/" \o ToString(id)

Listed(rem, id) == [path |-> PathOf(rem, id)] @@ EntryOf(rem, id)

\* GET drive/file-entries for one parent answered 200: its children by id
ServiceList(rem, parent) ==
    LET kids == {e.id : e \in {c \in rem : c.parent_id = parent}}
        order == SortedSeq(kids)
    IN  [i \in 1..Len(order) |-> Listed(rem, order[i])]

(***************************************************************************)
(* FileJumpApi.get_files and FileJumpApi.read_directory_tree.              *)
(*                                                                         *)
(* The traversal is one recursive function; what happens while it runs is  *)
(* given by two numbers, counted in listing requests already issued:       *)
(*   cancelAt  from that many requests on, self.cancel reads True          *)
(*   failAt    the request with that index is answered with an error       *)
(* Never stands for "does not happen".                                     *)
(***************************************************************************)
Never == -1

\* a get_files that stops after the first entry of the listing
get_first(rem, path_id) ==
    LET files == ServiceList(rem, IF path_id = None THEN RootId
                                  ELSE path_id[1])
    IN  IF files = <<>> THEN <<>> ELSE <<files[1]>>

get_files(rem, path_id) ==
    ServiceList(rem, IF path_id = None THEN RootId ELSE path_id[1])

EmptyRead(lists) ==
    [entries |-> <<>>, folders |-> <<>>, lists |-> lists, raised |-> FALSE]

\* the entry dict with its 'empty' key
Marked(entry, empty) == [empty |-> empty] @@ entry

RECURSIVE api_read_directory_tree(_, _, _, _, _)
RECURSIVE ReadEntries(_, _, _, _, _)

\* the loop "for entry in entries" (FileJumpApi.py 352-363), acc being
\* all_entries, folders and the requests issued so far
ReadEntries(rem, entries, acc, cancelAt, failAt) ==
    IF entries = <<>> \/ acc.raised THEN acc
    ELSE
      LET entry == Head(entries)
          isFolder == entry.type = "folder"
          sub == IF isFolder
                 THEN api_read_directory_tree(rem, Some(entry.id), acc.lists,
                                              cancelAt, failAt)
                 ELSE EmptyRead(acc.lists)
          empty == ~(isFolder /\ (sub.entries # <<>> \/ sub.folders # <<>>))
          e == Marked(entry, empty)
      IN  ReadEntries(rem, Tail(entries),
                      [entries |-> acc.entries \o sub.entries \o <<e>>,
                       folders |-> IF isFolder
                                   THEN acc.folders \o <<e>> \o sub.folders
                                   ELSE acc.folders,
                       lists |-> sub.lists,
                       raised |-> sub.raised],
                      cancelAt, failAt)

api_read_directory_tree(rem, path_id, lists, cancelAt, failAt) ==
    IF cancelAt # Never /\ Len(lists) >= cancelAt
    THEN EmptyRead(lists)
    ELSE LET issued == Append(lists, [req |-> "list", parent |-> path_id]) IN
         IF Len(lists) = failAt
         THEN [entries |-> <<>>, folders |-> <<>>, lists |-> issued,
               raised |-> TRUE]
         ELSE ReadEntries(rem, get_files(rem, path_id), EmptyRead(issued),
                          cancelAt, failAt)

\* the listing requests a whole traversal of rem issues
NumLists(rem) == 1 + Cardinality({e \in rem : e.type = "folder"})

\* a read of the remote that does not look at the flag when it starts
CancelAtsLate == {Never} \cup 1..(NumLists(remote) - 1)

\* when a read of the remote that starts now may find the flag set: from
\* the start when it is set already, else never or, set by another thread
\* while the read runs, after any of its listing requests but the last
CancelAts ==
    IF cancel THEN {0} ELSE {Never} \cup 1..(NumLists(remote) - 1)

\* the trees a read of the remote may return now, with any one listing
\* request failing
TreeReads ==
    {[cancelAt |-> cancelAt] @@
         api_read_directory_tree(remote, None, <<>>, cancelAt, failAt) :
        cancelAt \in CancelAts,
        failAt \in {Never} \cup 0..(NumLists(remote) - 1)}

\* the flag after a read
CancelAfter(tree) == cancel \/ tree.cancelAt # Never

(***************************************************************************)
(* The requests of the running operation.  The loop of delete, which need  *)
(* not end, keeps the first MaxLog of them.                                *)
(***************************************************************************)
MaxLog == 6

Record(reqs) == log \o reqs

RecordUpTo(reqs) ==
    LET all == log \o reqs
    IN  IF Len(all) <= MaxLog THEN all ELSE SubSeq(all, 1, MaxLog)

\* the operations the environment starts are counted, up to MaxOps
MaxOps == 3

NoFrame == [op |-> "none"]
NoCall == [call |-> NoFrame, result |-> "none"]

\* what is remembered of a call: the operation and, for create_folders
\* and set_description, its arguments
Summary(fr) ==
    IF fr.op = "create_folders"
    THEN [op |-> fr.op, files_list |-> fr.files_list,
          parent_id |-> fr.parent_id]
    ELSE IF fr.op = "set_description"
    THEN [op |-> fr.op, entry_id |-> fr.entry_id,
          fingerprint |-> fr.fingerprint]
    ELSE [op |-> fr.op]

\* the environment starts an operation: the one before goes to prev with
\* how it ended, and the list of requests starts anew
Begin ==
    /\ pc = "idle"
    /\ ops < MaxOps
    /\ ops' = ops + 1
    /\ prev' = [call |-> Summary(frame), result |-> result]
    /\ log' = <<>>

(***************************************************************************)
(* The remote trees an operation may find: up to MaxEntries entries with   *)
(* ids 1..n, each a file or a folder, in the root or in a folder of        *)
(* smaller id.                                                             *)
(***************************************************************************)
MaxEntries == 3

TreeOf(n, types, parents, names) ==
    {[id |-> i, name |-> names[i], type |-> types[i], parent_id |-> parents[i],
      description |-> ""] : i \in 1..n}

DefaultNames == [i \in 1..(MaxEntries + 1) |-> "e0" \o ToString(i)]

Trees ==
    UNION {{TreeOf(n, types, parents, DefaultNames) :
               types \in [1..n -> {"file", "folder"}],
               parents \in {q \in [1..n -> 0..(n - 1)] :
                              \A i \in 1..n : q[i] < i}}
           : n \in 0..MaxEntries}

WellFormedTree(rem) ==
    \A e \in rem :
        e.parent_id # RootId =>
            \E f \in rem : f.id = e.parent_id /\ f.type = "folder"

\* the ids of a list of entries
IdsOf(list) == [i \in 1..Len(list) |-> list[i].id]

Range(f) == {f[i] : i \in DOMAIN f}

\* the lists of n elements of S
RECURSIVE ListsOfLen(_, _)
ListsOfLen(S, n) ==
    IF n = 0 THEN {<<>>}
    ELSE {Append(l, x) : l \in ListsOfLen(S, n - 1), x \in S}

(***************************************************************************)
(* FjOperations.delete (FjOperations.py 79-105).                           *)
(***************************************************************************)
\* the environment sets FileJumpApi.cancel (another thread); a running
\* post_file notes, as history, how far its body had been read, a running
\* read how many blocks it had written
SetCancel ==
    /\ ~cancel
    /\ cancel' = TRUE
    /\ frame' = IF frame.op = "post_file" /\ pc # "idle"
                THEN [frame EXCEPT !.cancelled_at = frame.bytes_read]
                ELSE IF frame.op = "read" /\ pc # "idle"
                THEN [frame EXCEPT !.cancelled_at = Len(frame.written)]
                ELSE frame
    /\ UNCHANGED <<remote, nextId, all_fj_entries, all_fj_folders, log, pc,
                   result, ops, prev, segment, mangled, token, reader>>

\* lines 85-88: the ids are taken; an empty list returns at once
delete(file_list) ==
    /\ Begin
    /\ frame' = [op |-> "delete", entry_ids |-> file_list, folders |-> <<>>,
                 empty_dirs |-> <<>>, raised |-> "none"]
    /\ IF file_list = <<>>
       THEN pc' = "idle" /\ result' = "ok"
       ELSE pc' = "delete_files" /\ result' = "none"
    /\ UNCHANGED <<remote, nextId, cancel, all_fj_entries, all_fj_folders,
                   segment, mangled, token, reader>>

\* the request of delete_files called without delete_forever=True
TrashRequest(entry_ids, delete_forever) ==
    [req |-> "delete", entryIds |-> entry_ids, deleteForever |-> FALSE]

\* the request FileJumpApi.delete_files issues
DeleteRequest(entry_ids, delete_forever) ==
    [req |-> "delete", entryIds |-> entry_ids, deleteForever |-> delete_forever]

\* line 91: api.delete_files(entry_ids, delete_forever=True); a status
\* other than 200 raises FJError out of delete
delete_entries ==
    /\ pc = "delete_files"
    /\ log' = Record(<<DeleteRequest(frame.entry_ids, TRUE)>>)
    /\ \/ /\ remote' = ServiceDelete(remote, Range(frame.entry_ids))
          /\ pc' = "read_tree"
          /\ UNCHANGED <<result, frame>>
       \/ /\ pc' = "idle"
          /\ result' = "FJError"
          /\ frame' = [frame EXCEPT !.raised = "delete_files"]
          /\ UNCHANGED remote
    /\ UNCHANGED <<nextId, cancel, all_fj_entries, all_fj_folders, ops,
                   prev, segment, mangled, token, reader>>

\* line 94: dir_tree, folders = self.api.read_directory_tree()
delete_read_tree ==
    /\ pc = "read_tree"
    /\ \E tree \in TreeReads :
         /\ log' = Record(tree.lists)
         /\ cancel' = CancelAfter(tree)
         /\ IF tree.raised
            THEN /\ pc' = "idle"
                 /\ result' = "FJError"
                 /\ frame' = [frame EXCEPT !.raised = "read_tree"]
            ELSE /\ pc' = "scan"
                 /\ frame' = [frame EXCEPT !.folders = tree.folders]
                 /\ UNCHANGED result
    /\ UNCHANGED <<remote, nextId, all_fj_entries, all_fj_folders, ops,
                   prev, segment, mangled, token, reader>>

\* lines 96-99: the ids of the folders of the list that are marked empty
EmptyDirs(folders) ==
    IdsOf(SelectSeq(folders, LAMBDA entry : entry.empty))

\* lines 95-101, 103-105: one turn of "while True" up to its test
delete_scan ==
    /\ pc = "scan"
    /\ frame' = [frame EXCEPT !.empty_dirs = EmptyDirs(frame.folders)]
    /\ IF EmptyDirs(frame.folders) # <<>>
       THEN pc' = "prune" /\ UNCHANGED result
       ELSE pc' = "idle" /\ result' = "ok"
    /\ UNCHANGED <<remote, nextId, cancel, all_fj_entries, all_fj_folders, log,
                   ops, prev, segment, mangled, token, reader>>

\* line 102: api.delete_files(list(empty_dirs), delete_forever=True), and
\* back to the head of the loop
delete_prune ==
    /\ pc = "prune"
    /\ log' = RecordUpTo(<<DeleteRequest(frame.empty_dirs, TRUE)>>)
    /\ \/ /\ remote' = ServiceDelete(remote, Range(frame.empty_dirs))
          /\ pc' = "scan"
          /\ UNCHANGED <<result, frame>>
       \/ /\ pc' = "idle"
          /\ result' = "FJError"
          /\ frame' = [frame EXCEPT !.raised = "delete_files"]
          /\ UNCHANGED remote
    /\ UNCHANGED <<nextId, cancel, all_fj_entries, all_fj_folders, ops,
                   prev, segment, mangled, token, reader>>

\* the lists of ids the caller may pass: entries of the remote, by rising id
FileLists(rem) == {SortedSeq(S) : S \in SUBSET Ids(rem)}

InitDelete ==
    /\ remote \in {t \in Trees : WellFormedTree(t)}
    /\ nextId = MaxEntries + 1
    /\ cancel = FALSE
    /\ all_fj_entries = None
    /\ all_fj_folders = None
    /\ log = <<>>
    /\ pc = "idle"
    /\ result = "none"
    /\ frame = NoFrame
    /\ ops = 0
    /\ prev = NoCall
    /\ segment = ""
    /\ mangled = None
    /\ token = None
    /\ reader = None

NextDelete ==
    \/ \E file_list \in FileLists(remote) : delete(file_list)
    \/ delete_entries
    \/ delete_read_tree
    \/ delete_scan
    \/ delete_prune
    \/ SetCancel

SpecDelete == InitDelete /\ [][NextDelete]_vars

\* the folder holds an entry on the remote
HasChildren(rem, id) == \E e \in rem : e.parent_id = id

\* delete has just read the tree (line 94), with a listing request at least
JustRead == frame.op = "delete" /\ pc = "scan" /\ log[Len(log)].req = "list"

\* C18: every folder of the tree delete has just read is marked empty
\* exactly when it holds nothing on the remote, whether or not the cancel
\* flag was set while the tree was read.
C18_EmptyFlagExact ==
    JustRead => \A k \in DOMAIN frame.folders :
                    frame.folders[k].empty
                        <=> ~HasChildren(remote, frame.folders[k].id)

\* the ids of the folders of the remote
FolderIds(rem) == {e.id : e \in {c \in rem : c.type = "folder"}}

\* C19: a tree read that did not fail gave delete the whole tree: the
\* folders delete goes on with are all the folders of the remote.
C19_ReadCompleteOrFails ==
    JustRead => Range(IdsOf(frame.folders)) = FolderIds(remote)

\* the delete requests among a list of requests
Deletes(requests) == SelectSeq(requests, LAMBDA r : r.req = "delete")

\* C20: the first request of a delete is the one delete request that
\* carries all the ids given, in their order; once it is answered the
\* entries are gone from the remote; every delete request of a delete asks
\* for deleteForever; a delete of an empty list issues no request.
C20_OneBatchForever ==
    frame.op = "delete" =>
        /\ frame.entry_ids = <<>> => (log = <<>> /\ pc = "idle")
        /\ log # <<>> =>
               /\ log[1].req = "delete"
               /\ log[1].entryIds = frame.entry_ids
               /\ \A k \in DOMAIN log :
                      (log[k].req = "delete"
                          /\ log[k].entryIds = frame.entry_ids) => k = 1
        /\ \A k \in DOMAIN log :
               log[k].req = "delete" => log[k].deleteForever = TRUE
        /\ (pc \in {"read_tree", "scan", "prune"} \/ result = "ok") =>
               Range(frame.entry_ids) \cap Ids(remote) = {}

C20_Witness ==
    /\ frame.op = "delete"
    /\ pc = "scan"
    /\ Len(frame.entry_ids) = 2
    /\ Len(Deletes(log)) = 2
    /\ log[Len(log)].entryIds = frame.empty_dirs

\* C26: between any two delete requests of a delete there is a listing
\* request: the folders of each pruning pass come from a tree read after
\* the delete request before it.
C26_ReadBetweenDeletes ==
    frame.op = "delete" =>
        \A j, k \in DOMAIN log :
            (j < k /\ log[j].req = "delete" /\ log[k].req = "delete")
                => \E i \in (j + 1)..(k - 1) : log[i].req = "list"

\* C33: the folders of the first pruning request after a tree read held
\* nothing on the remote when the tree was read (the remote is as the read
\* found it until that request is answered), also when the cancel flag was
\* set while the tree was read.
C33_PruneOnlyEmpty ==
    (frame.op = "delete" /\ pc = "prune" /\ log[Len(log)].req = "list") =>
        \A k \in DOMAIN frame.empty_dirs :
            ~HasChildren(remote, frame.empty_dirs[k])

\* the thread running delete keeps running: each of its steps that can be
\* taken is taken.  The read of the tree can be taken exactly when pc is
\* "read_tree" and leaves that position, so weak fairness of it is
\* []<>(pc # "read_tree").
FairSpecDelete ==
    /\ SpecDelete
    /\ WF_vars(delete_entries)
    /\ []<>(pc # "read_tree")
    /\ WF_vars(delete_scan)
    /\ WF_vars(delete_prune)

\* C1: every call of delete returns (with every remote call answered 200,
\* a call that left nested folders empty prunes them and returns).
C1_DeleteTerminates == (pc # "idle") ~> (pc = "idle")


(***************************************************************************)
(* The cached lists of FjOperations (FjOperations.py 38-51): class         *)
(* attributes, read from the service by the first access and kept.         *)
(***************************************************************************)
mangleVars == <<segment, mangled>>
cacheVars == <<all_fj_entries, all_fj_folders>>
serviceVars == <<remote, nextId>>

\* the properties all_fj_entries and all_fj_folders: the tree a first access
\* reads (tree.raised: the read failed and nothing is stored)
CacheLoaded == all_fj_folders # None

LoadCache(tree) ==
    IF CacheLoaded \/ tree.raised
    THEN UNCHANGED cacheVars
    ELSE /\ all_fj_entries' = Some(tree.entries)
         /\ all_fj_folders' = Some(tree.folders)

\* {item["name"]: item["id"] for item in list}: a later item replaces an
\* earlier one of the same name
NameToId(list) ==
    [n \in {list[k].name : k \in DOMAIN list} |->
        LET last == CHOOSE k \in DOMAIN list :
                        /\ list[k].name = n
                        /\ \A j \in DOMAIN list : list[j].name = n => j <= k
        IN  list[last].id]

\* dict[key] = value
Put(dict, key, value) ==
    [k \in DOMAIN dict \cup {key} |-> IF k = key THEN value ELSE dict[k]]

(***************************************************************************)
(* FjOperations.create_folders (FjOperations.py 133-176) and               *)
(* FileJumpApi.create_folder (FileJumpApi.py 116-143).                     *)
(***************************************************************************)
MaxTries == 5
RetrySleep == 20

\* line 156, as "if num_tries > 6"
GiveUpLate(num_tries) == num_tries > MaxTries + 1

\* line 156: if num_tries > 5
GiveUp(num_tries) == num_tries > MaxTries

CreateRequest(folder, parent_id) ==
    [req |-> "create_folder", name |-> folder, parentId |-> parent_id]

SleepRecord(seconds) == [req |-> "sleep", seconds |-> seconds]

\* the folder the service makes for POST folders, and reports
ServiceFolder(id, name, parent_id) ==
    [id |-> id, name |-> name, type |-> "folder", parent_id |-> parent_id,
     description |-> ""]

\* the name the service may give instead of the one asked for
Renamed(name) == name \o "~"

\* file_info.get("ppath", "").split("\\")
PathList(file_info) == split(file_info.ppath, "\\")

\* the frame's place: file f of files_list, segment i of its path
CurrentPathList(fr) == PathList(fr.files_list[fr.f])
CurrentFolder(fr) == Mangle(CurrentPathList(fr)[fr.i])

\* the positions inside create_folders
InCreateFolders == pc \in {"cf_index", "cf_segment", "cf_try"}

\* a write that goes on after create_folders whatever became of it
ReturnIntoWrite(res) ==
    IF frame.op = "write" /\ InCreateFolders
    THEN pc' = "wr_tree" /\ UNCHANGED result
    ELSE result' = res /\ pc' = "idle"

\* leave the operation; create_folders called by write (line 233) returns
\* into write, and what it raises leaves write too
Return(res) ==
    IF frame.op = "write" /\ InCreateFolders /\ res = "ok"
    THEN pc' = "wr_tree" /\ UNCHANGED result
    ELSE result' = res /\ pc' = "idle"

\* the locals of create_folders, for the operation op that runs it
Locals(op, files_list, parent_id) ==
    [op |-> op, files_list |-> files_list,
     parent_id |-> parent_id, folders_list |-> <<>>,
     f |-> 1, i |-> 1, parent_folder |-> "", num_tries |-> 0,
     raised |-> "none"]

\* line 139: "if not files_list: return"
create_folders_begin(files_list, parent_id) ==
    /\ frame' = Locals("create_folders", files_list, parent_id)
    /\ IF files_list = <<>>
       THEN pc' = "idle" /\ result' = "ok"
       ELSE pc' = "cf_index" /\ result' = "none"

create_folders(files_list, parent_id) ==
    /\ Begin
    /\ create_folders_begin(files_list, parent_id)
    /\ UNCHANGED <<serviceVars, cancel, cacheVars, mangleVars, token, reader>>

\* line 141: folders_list = {item["name"]: item["id"] for item in
\* self.all_fj_folders}; the property reads the tree when nothing is cached
cf_index ==
    /\ pc = "cf_index"
    /\ \E tree \in TreeReads :
         /\ LoadCache(tree)
         /\ cancel' = IF CacheLoaded THEN cancel ELSE CancelAfter(tree)
         /\ IF CacheLoaded
            THEN /\ frame' = [frame EXCEPT
                        !.folders_list = NameToId(all_fj_folders[1])]
                 /\ pc' = "cf_segment"
                 /\ UNCHANGED <<log, result>>
            ELSE /\ log' = Record(tree.lists)
                 /\ IF tree.raised
                    THEN /\ frame' = [frame EXCEPT !.raised = "read_tree"]
                         /\ Return("FJError")
                    ELSE /\ frame' = [frame EXCEPT
                                !.folders_list = NameToId(tree.folders)]
                         /\ pc' = "cf_segment"
                         /\ UNCHANGED result
    /\ UNCHANGED <<serviceVars, ops, prev, mangleVars, token, reader>>

\* the frame at the next segment (lines 142, 145), or past the last one
Advance(fr) ==
    IF fr.i < Len(CurrentPathList(fr))
    THEN [fr EXCEPT !.i = fr.i + 1]
    ELSE [fr EXCEPT !.f = fr.f + 1, !.i = 1]

Finished(fr) == fr.f > Len(fr.files_list)

\* lines 146-154: the segment is mangled and looked up; a missing one gets
\* its parent's name: path_list[i-1] or parent_id, .ljust(3, "_"), which is
\* an AttributeError for parent_id None
cf_segment ==
    /\ pc = "cf_segment"
    /\ IF Finished(frame)
       THEN Return("ok") /\ UNCHANGED frame
       ELSE IF CurrentFolder(frame) \in DOMAIN frame.folders_list
       THEN /\ frame' = Advance(frame)
            /\ UNCHANGED <<pc, result>>
       ELSE IF frame.i = 1 /\ frame.parent_id = None
       THEN /\ frame' = [frame EXCEPT !.raised = "None.ljust"]
            /\ Return("AttributeError")
       ELSE /\ frame' = [frame EXCEPT
                   !.parent_folder =
                       ljust(IF frame.i > 1
                             THEN CurrentPathList(frame)[frame.i - 1]
                             ELSE frame.parent_id[1], MinFolderLen, "_"),
                   !.num_tries = 0]
            /\ pc' = "cf_try"
            /\ UNCHANGED result
    /\ UNCHANGED <<serviceVars, cancel, cacheVars, log, ops, prev,
                   mangleVars, token, reader>>

\* lines 167-172: the folder of the response gets its ppath, goes into
\* folders_list under the name the service reports, and into the cached list
Created(fr, folder_data) ==
    [fr EXCEPT !.folders_list = Put(fr.folders_list, folder_data.name,
                                    folder_data.id)]

WithPpath(folder_data, ppath) ==
    [id |-> folder_data.id, name |-> folder_data.name,
     type |-> folder_data.type, parent_id |-> folder_data.parent_id,
     description |-> folder_data.description, ppath |-> ppath]

\* lines 155-176: one turn of the retry loop.  The request is answered
\*   200 with the folder, under the name asked for or another one,
\*   200 without folder data (or with null): FJError, no retry,
\*   another status: FJError inside create_folder, caught, sleep(20), again.
cf_try ==
    /\ pc = "cf_try"
    /\ IF GiveUp(frame.num_tries)
       THEN /\ frame' = [frame EXCEPT !.raised = "attempts"]
            /\ Return("FJError")
            /\ UNCHANGED <<serviceVars, cacheVars, log>>
       ELSE IF frame.parent_folder \notin DOMAIN frame.folders_list
       THEN /\ frame' = [frame EXCEPT !.num_tries = frame.num_tries + 1,
                                      !.raised = "folders_list[parent_folder]"]
            /\ Return("KeyError")
            /\ UNCHANGED <<serviceVars, cacheVars, log>>
       ELSE
         LET folder == CurrentFolder(frame)
             parent == frame.folders_list[frame.parent_folder]
             request == CreateRequest(folder, parent)
             tried == [frame EXCEPT !.num_tries = frame.num_tries + 1]
         IN  \/ \E name \in {folder, Renamed(folder)} :
                  LET folder_data ==
                          WithPpath(ServiceFolder(nextId, name, parent),
                                    join("\\", SubSeq(CurrentPathList(frame),
                                                      1, frame.i)))
                  IN  /\ remote' = remote \cup
                                     {ServiceFolder(nextId, name, parent)}
                      /\ nextId' = nextId + 1
                      /\ log' = Record(<<request>>)
                      /\ frame' = Advance(Created(tried, folder_data))
                      /\ all_fj_folders' =
                             Some(Append(all_fj_folders[1], folder_data))
                      /\ pc' = "cf_segment"
                      /\ UNCHANGED <<all_fj_entries, result>>
             \/ /\ log' = Record(<<request>>)
                /\ frame' = [tried EXCEPT !.raised = "no folder data"]
                /\ Return("FJError")
                /\ UNCHANGED <<serviceVars, cacheVars>>
             \/ /\ log' = Record(<<request, SleepRecord(RetrySleep)>>)
                /\ frame' = tried
                /\ UNCHANGED <<serviceVars, cacheVars, pc, result>>
    /\ UNCHANGED <<cancel, ops, prev, mangleVars, token, reader>>

(***************************************************************************)
(* create_folders called on its own: remote trees of up to MaxFolders      *)
(* folders, lists of up to MaxFiles files.                                 *)
(***************************************************************************)
MaxFolders == 2
MaxFiles == 1

FolderNames == {"abc", "x__"}
Paths == {"x", "x\\y", "abc\\x"}
ParentIds == {None, Some("abc")}

FolderTrees ==
    UNION {{TreeOf(n, [i \in 1..n |-> "folder"], parents, names) :
               parents \in {q \in [1..n -> 0..(n - 1)] :
                              \A i \in 1..n : q[i] < i},
               names \in [1..n -> FolderNames]}
           : n \in 0..MaxFolders}

FileInfos == {[name |-> "a.txt", ppath |-> p] : p \in Paths}

FilesLists == UNION {ListsOfLen(FileInfos, n) : n \in 1..MaxFiles}

InitProvision ==
    /\ remote \in FolderTrees
    /\ nextId = MaxFolders + 1
    /\ cancel = FALSE
    /\ all_fj_entries = None
    /\ all_fj_folders = None
    /\ log = <<>>
    /\ pc = "idle"
    /\ result = "none"
    /\ frame = NoFrame
    /\ ops = 0
    /\ prev = NoCall
    /\ segment = ""
    /\ mangled = None
    /\ token = None
    /\ reader = None

NextProvision ==
    \/ \E files_list \in FilesLists, parent_id \in ParentIds :
           create_folders(files_list, parent_id)
    \/ cf_index
    \/ cf_segment
    \/ cf_try

SpecProvision == InitProvision /\ [][NextProvision]_vars

\* the create-folder requests among a list of requests
Creates(requests) == SelectSeq(requests, LAMBDA r : r.req = "create_folder")

\* the mangled segments of every path of a list of files
MangledSegments(files_list) ==
    UNION {{Mangle(seg) : seg \in Range(PathList(files_list[k]))} :
              k \in DOMAIN files_list}

ReturnedFrom(op) == pc = "idle" /\ frame.op = op

\* C2: a second create_folders with the list and parent of a first one that
\* returned normally issues no create-folder request.
C2_SecondCallCreatesNothing ==
    ( /\ frame.op = "create_folders"
      /\ prev.call.op = "create_folders"
      /\ prev.result = "ok"
      /\ prev.call.files_list = frame.files_list
      /\ prev.call.parent_id = frame.parent_id )
    => Creates(log) = <<>>

\* C3: when create_folders gives up on a segment, it has issued exactly 5
\* create-folder requests for it.
C3_ExactlyFiveAttempts ==
    (ReturnedFrom("create_folders") /\ frame.raised = "attempts")
    => Len(SelectSeq(Creates(log),
                     LAMBDA r : r.name = CurrentFolder(frame))) = 5

\* C9: after create_folders returned normally, every mangled segment of
\* every path asked for is a key of the name-to-id index.
C9_SegmentsIndexed ==
    (ReturnedFrom("create_folders") /\ result = "ok")
    => MangledSegments(frame.files_list) \subseteq DOMAIN frame.folders_list

\* the parent a create-folder request names (an id of folders_list), as a
\* string
ParentAsked(request) == ToString(request.parentId)

\* C28: every create-folder request of a create_folders is for a segment
\* of a path of the list; for a first segment it names as parent the id
\* the caller gave as parent_id (none, the root, when the caller gave
\* none), for a later segment the id the index holds for the segment
\* before it; and a missing first segment is so created also when the
\* caller gave no parent_id.
C28_ParentOfCreated ==
    frame.op = "create_folders" =>
        /\ frame.raised # "None.ljust"
        /\ \A k \in DOMAIN log :
               log[k].req = "create_folder" =>
                   \E f \in DOMAIN frame.files_list :
                       LET path_list == PathList(frame.files_list[f]) IN
                       \E i \in DOMAIN path_list :
                           /\ Mangle(path_list[i]) = log[k].name
                           /\ i = 1 =>
                                  ParentAsked(log[k]) =
                                      IF frame.parent_id = None THEN ""
                                      ELSE frame.parent_id[1]
                           /\ i > 1 =>
                                  /\ Mangle(path_list[i - 1])
                                         \in DOMAIN frame.folders_list
                                  /\ log[k].parentId =
                                         frame.folders_list[
                                             Mangle(path_list[i - 1])]

\* C36: after create_folders returned normally, for every path of the
\* list and every two segments of it that follow each other and are keys
\* of the index, the remote folder the index holds for the second is a
\* child of the one it holds for the first.
C36_ChainIsNested ==
    (ReturnedFrom("create_folders") /\ result = "ok") =>
        \A f \in DOMAIN frame.files_list :
            LET path_list == PathList(frame.files_list[f]) IN
            \A i \in 1..(Len(path_list) - 1) :
                LET first == Mangle(path_list[i])
                    second == Mangle(path_list[i + 1])
                IN  (first \in DOMAIN frame.folders_list
                        /\ second \in DOMAIN frame.folders_list)
                    => EntryOf(remote, frame.folders_list[second]).parent_id
                           = frame.folders_list[first]

(***************************************************************************)
(* FileJumpApi.post_file (FileJumpApi.py 145-217).                         *)
(*                                                                         *)
(* The body is the MultipartEncoderMonitor: the connection reads it block  *)
(* by block until a read returns nothing, and every read, the last one     *)
(* included, ends with the callback of create_callback.  The monitor is    *)
(* made once, before the retry loop, so a later request goes on reading    *)
(* where the one before stopped.  Sizes are counted in bytes, with blocks  *)
(* of BlockSize bytes.                                                     *)
(***************************************************************************)
FirstTimeout == 1000
TimeoutCap == 10000
TimeoutFactor == 10

MaxBytes == 3
BlockSize == 2

Min(a, b) == IF a <= b THEN a ELSE b

\* line 199, as "if timeout >= 10000"
TimeoutGiveUpAtCap(timeout) == timeout >= TimeoutCap

\* line 199: if timeout > 10000
TimeoutGiveUp(timeout) == timeout > TimeoutCap

\* a callback that does not look at the flag
CallbackIgnoresCancel(flag) == FALSE

\* lines 173-175: the callback raises FJError when self.cancel is set
CallbackRaises(flag) == flag

UploadRequest(timeout) == [req |-> "upload", timeout |-> timeout]

\* a post_file without line 150
post_file_keeps_flag(size) ==
    /\ cancel' = cancel
    /\ frame' = [op |-> "post_file", size |-> size, bytes_read |-> 0,
                 sent |-> 0, timeout |-> FirstTimeout, progress |-> <<>>,
                 cancelled_at |-> Never, raised |-> "none",
                 flag_on_entry |-> cancel]
    /\ pc' = "pf_request"
    /\ result' = "none"

\* lines 150, 184-186; flag_on_entry notes, as history, the flag the call
\* found
post_file_begin(size) ==
    /\ cancel' = FALSE
    /\ frame' = [op |-> "post_file", size |-> size, bytes_read |-> 0,
                 sent |-> 0, timeout |-> FirstTimeout, progress |-> <<>>,
                 cancelled_at |-> Never, raised |-> "none",
                 flag_on_entry |-> cancel]
    /\ pc' = "pf_request"
    /\ result' = "none"

post_file(size) ==
    /\ Begin
    /\ post_file_begin(size)
    /\ UNCHANGED <<serviceVars, cacheVars, mangleVars, token, reader>>

\* lines 188, 190: the request goes out with the current timeout
pf_request ==
    /\ pc = "pf_request"
    /\ log' = Record(<<UploadRequest(frame.timeout)>>)
    /\ pc' = "pf_send"
    /\ UNCHANGED <<serviceVars, cancel, cacheVars, result, frame, ops, prev,
                   mangleVars, token, reader>>

\* lines 206-211: "except Exception"; raised keeps what was raised first
ExceptException(fr) ==
    IF cancel
    THEN /\ frame' = fr
         /\ Return("None")
    ELSE /\ frame' = [fr EXCEPT !.raised = IF fr.raised = "none"
                                            THEN "exception" ELSE fr.raised]
         /\ Return("FJError")

\* a status other than 201 taken like a timeout: the request goes out again
RetryOnBadStatus(fr) ==
    /\ frame' = [fr EXCEPT !.raised = "bad status"]
    /\ pc' = "pf_request"
    /\ UNCHANGED result

\* lines 191-194: a status other than 201 raises FJError inside the try,
\* which "except Exception" takes
OnBadStatus(fr) == ExceptException([fr EXCEPT !.raised = "bad status"])

\* a callback that reports the bytes the body still holds
file_progress_left(monitor) ==
    [uploaded |-> monitor.size - monitor.bytes_read, size |-> monitor.size]

\* line 177: percent_callback.file_progress(file_path, monitor.bytes_read,
\* encoder.len)
file_progress(monitor) ==
    [uploaded |-> monitor.bytes_read, size |-> monitor.size]

\* the connection reads the next block of the body (MultipartEncoderMonitor
\* .read, then the callback of lines 172-177); a read that returns nothing
\* ends the body
pf_read ==
    /\ pc = "pf_send"
    /\ LET n == Min(BlockSize, frame.size - frame.bytes_read)
           read == [frame EXCEPT !.bytes_read = frame.bytes_read + n]
       IN  IF CallbackRaises(cancel)
           THEN ExceptException(read)
           ELSE /\ frame' = [read EXCEPT
                       !.progress = Append(frame.progress,
                                           file_progress(read))]
                /\ pc' = IF n = 0 THEN "pf_response" ELSE "pf_block"
                /\ UNCHANGED result
    /\ UNCHANGED <<serviceVars, cancel, cacheVars, log, ops, prev,
                   mangleVars, token, reader>>

\* the block just read goes to the connection
pf_block ==
    /\ pc = "pf_block"
    /\ frame' = [frame EXCEPT !.sent = frame.bytes_read]
    /\ pc' = "pf_send"
    /\ UNCHANGED <<serviceVars, cancel, cacheVars, log, result, ops, prev,
                   mangleVars, token, reader>>

\* lines 191-197, 212-217: the response.  201 with a body returns it; 201
\* with an empty JSON value returns None ("if not out_data"); another
\* status raises FJError inside the try, which "except Exception" takes
pf_response ==
    /\ pc = "pf_response"
    /\ \/ /\ frame' = frame
          /\ Return("ok")
       \/ /\ frame' = frame
          /\ Return("None")
       \/ OnBadStatus(frame)
    /\ UNCHANGED <<serviceVars, cancel, cacheVars, log, ops, prev,
                   mangleVars, token, reader>>

\* lines 198-205: requests.exceptions.Timeout, while connecting, sending or
\* waiting for the response
pf_timeout ==
    /\ pc \in {"pf_send", "pf_block", "pf_response"}
    /\ IF TimeoutGiveUp(frame.timeout)
       THEN /\ frame' = [frame EXCEPT !.raised = "timeout"]
            /\ Return("FJError")
       ELSE /\ frame' = [frame EXCEPT !.timeout = frame.timeout * TimeoutFactor]
            /\ pc' = "pf_request"
            /\ UNCHANGED result
    /\ UNCHANGED <<serviceVars, cancel, cacheVars, log, ops, prev,
                   mangleVars, token, reader>>

\* lines 206-211: any other exception of the request (a lost connection, a
\* body that is not JSON)
pf_exception ==
    /\ pc \in {"pf_send", "pf_block", "pf_response"}
    /\ ExceptException(frame)
    /\ UNCHANGED <<serviceVars, cancel, cacheVars, log, ops, prev,
                   mangleVars, token, reader>>

InitUpload ==
    /\ remote = {}
    /\ nextId = 1
    /\ cancel \in BOOLEAN
    /\ all_fj_entries = None
    /\ all_fj_folders = None
    /\ log = <<>>
    /\ pc = "idle"
    /\ result = "none"
    /\ frame = NoFrame
    /\ ops = 0
    /\ prev = NoCall
    /\ segment = ""
    /\ mangled = None
    /\ token = None
    /\ reader = None

NextUpload ==
    \/ \E size \in 1..MaxBytes : post_file(size)
    \/ pf_request
    \/ pf_read
    \/ pf_block
    \/ pf_response
    \/ pf_timeout
    \/ pf_exception
    \/ SetCancel

SpecUpload == InitUpload /\ [][NextUpload]_vars

\* the upload requests among a list of requests
Uploads(requests) == SelectSeq(requests, LAMBDA r : r.req = "upload")

RECURSIVE Power(_, _)
Power(b, n) == IF n = 0 THEN 1 ELSE b * Power(b, n - 1)

\* C4 (as amended): the k-th upload request of a post_file has timeout
\* 1000 * 10^(k-1); there are at most three, so none has a timeout above
\* 100,000; the timeout error is raised only after the third request, the
\* one with timeout 100,000, timed out.
C4_TimeoutEscalation ==
    frame.op = "post_file" =>
        LET u == Uploads(log) IN
        /\ Len(u) <= 3
        /\ \A k \in DOMAIN u : u[k].timeout = 1000 * Power(10, k - 1)
        /\ (pc = "idle" /\ frame.raised = "timeout") =>
               (Len(u) = 3 /\ u[3].timeout = 100000 /\ result = "FJError")

C4_Witness ==
    /\ ReturnedFrom("post_file")
    /\ frame.raised = "timeout"
    /\ result = "FJError"
    /\ Len(Uploads(log)) = 3
    /\ frame.sent = 0

\* C4 as claimed: the timeouts rise tenfold from 1000, no request has a
\* timeout above 10,000, and the timeout error comes once the next timeout
\* would be above 10,000.
C4_NoRequestAboveCap ==
    frame.op = "post_file" =>
        LET u == Uploads(log) IN
        /\ \A k \in DOMAIN u : u[k].timeout = 1000 * Power(10, k - 1)
        /\ \A k \in DOMAIN u : u[k].timeout <= 10000
        /\ (pc = "idle" /\ frame.raised = "timeout") =>
               u[Len(u)].timeout * 10 > 10000

\* C6 (as amended): once the flag is set during a post_file, no block read
\* after that is sent; and when blocks were still unread at that moment,
\* post_file does not return a response: it returns None, or raises the
\* timeout error when a request timed out first with the timeout at 100,000.
C6_CancelStopsUpload ==
    (frame.op = "post_file" /\ frame.cancelled_at # Never) =>
        /\ frame.sent <= frame.cancelled_at
        /\ (pc = "idle" /\ frame.cancelled_at < frame.size) =>
               \/ result = "None"
               \/ result = "FJError" /\ frame.raised = "timeout"

C6_Witness ==
    /\ ReturnedFrom("post_file")
    /\ frame.cancelled_at # Never
    /\ 0 < frame.sent
    /\ frame.cancelled_at < frame.size
    /\ result = "None"

\* C6 as claimed: with the flag set while blocks were still unread,
\* post_file returns None.
C6_CancelReturnsNone ==
    ( /\ ReturnedFrom("post_file")
      /\ frame.cancelled_at # Never
      /\ frame.cancelled_at < frame.size )
    => result = "None"

\* C16: an upload response with a status other than 201 ends post_file:
\* the request it answers is the last one, after the one request for each
\* timeout before it (so the only one when none timed out), and post_file
\* raises FJError unless the cancel flag was set during the call.
C16_BadStatusIsPermanent ==
    (frame.op = "post_file" /\ frame.raised = "bad status") =>
        /\ pc = "idle"
        /\ \E k \in 0..2 :
               /\ frame.timeout = FirstTimeout * Power(TimeoutFactor, k)
               /\ Len(Uploads(log)) = k + 1
        /\ frame.cancelled_at = Never => result = "FJError"

C16_Witness ==
    /\ ReturnedFrom("post_file")
    /\ frame.raised = "bad status"
    /\ frame.cancelled_at = Never
    /\ result = "FJError"
    /\ Len(Uploads(log)) = 1

\* C31: when post_file returns the response of the service, the reports
\* made to file_progress have bytes sent that never fall and never exceed
\* the total reported with them, the total is the same in every report,
\* and the last report has bytes sent equal to the total.
C31_ProgressReachesTotal ==
    (ReturnedFrom("post_file") /\ result = "ok") =>
        LET p == frame.progress IN
        /\ p # <<>>
        /\ \A k \in DOMAIN p :
               /\ p[k].uploaded <= p[k].size
               /\ p[k].size = p[1].size
               /\ k > 1 => p[k - 1].uploaded <= p[k].uploaded
        /\ p[Len(p)].uploaded = p[Len(p)].size

C31_Witness ==
    /\ ReturnedFrom("post_file")
    /\ result = "ok"
    /\ Len(frame.progress) = 3
    /\ frame.progress[1].uploaded = 2
    /\ frame.progress[2].uploaded = 3
    /\ frame.progress[3].uploaded = 3

\* C38: every upload request of a post_file, the first one and each retry
\* after a timeout, goes out with the body at its first byte.
C38_RetryFromFirstByte ==
    [][(frame.op = "post_file" /\ pc = "pf_request" /\ pc' = "pf_send")
           => frame'.bytes_read = 0]_vars

(***************************************************************************)
(* FileJumpApi.read (FileJumpApi.py 310-335) and FjOperations.read         *)
(* (FjOperations.py 107-131): the same loop, the first after               *)
(* "self.cancel = False".                                                  *)
(*                                                                         *)
(* The service's answer to GET file-entries/{id} is chosen when the        *)
(* request is made: the length of the body and the content-length header   *)
(* (0: none).                                                              *)
(***************************************************************************)
chunk_size == 16384

MaxHalfChunks == 4
MaxReadFiles == 2

BodySizes == {k * (chunk_size \div 2) : k \in 0..MaxHalfChunks}

ReadableFiles == {[id |-> 1, name |-> "a"], [id |-> 0, name |-> "b"],
                  [id |-> 3, name |-> ""]}

ReadLists == UNION {ListsOfLen(ReadableFiles, n) : n \in 1..MaxReadFiles}

\* the content-length header of a response with a body of this size: none
\* (0), the size, or another length (that of an encoded body)
DeclaredLengths(body) == {0, body, chunk_size}

GetFileRequest(entry_id) == [req |-> "get_file", id |-> entry_id]

\* a percentage of what is still to come
PercentLeft(downloaded, total) == ((total - downloaded) * 100) \div total

\* int(downloaded * 100 / total)
Percent(downloaded, total) == (downloaded * 100) \div total

read_begin(files_list, api) ==
    /\ frame' = [op |-> "read", api |-> api, files_list |-> files_list,
                 k |-> 1, body |-> 0, total |-> 0, downloaded |-> 0,
                 written |-> <<>>, progress |-> <<>>,
                 cancelled_at |-> Never, raised |-> "none",
                 flag_on_entry |-> cancel]
    /\ pc' = "rd_file"
    /\ result' = "none"

\* FileJumpApi.read, line 318: self.cancel = False
api_read(files_list) ==
    /\ Begin
    /\ read_begin(files_list, TRUE)
    /\ cancel' = FALSE
    /\ UNCHANGED <<serviceVars, cacheVars, mangleVars, token, reader>>

\* FjOperations.read
ops_read(files_list) ==
    /\ Begin
    /\ read_begin(files_list, FALSE)
    /\ UNCHANGED <<serviceVars, cancel, cacheVars, mangleVars, token, reader>>

\* lines 319-328: the next file of the list; one without id or name is
\* passed over; get_file raises FJError for a status other than 200
rd_file ==
    /\ pc = "rd_file"
    /\ IF frame.k > Len(frame.files_list)
       THEN /\ Return("ok")
            /\ UNCHANGED <<frame, log>>
       ELSE LET file == frame.files_list[frame.k] IN
            IF file.id = 0 \/ file.name = ""
            THEN /\ frame' = [frame EXCEPT !.k = frame.k + 1]
                 /\ UNCHANGED <<pc, result, log>>
            ELSE /\ log' = Record(<<GetFileRequest(file.id)>>)
                 /\ \/ \E body \in BodySizes :
                       \E total \in DeclaredLengths(body) :
                         /\ frame' = [frame EXCEPT !.body = body,
                                                   !.total = total,
                                                   !.downloaded = 0]
                         /\ pc' = "rd_stream"
                         /\ UNCHANGED result
                    \/ /\ frame' = [frame EXCEPT !.raised = "get_file"]
                       /\ Return("FJError")
    /\ UNCHANGED <<serviceVars, cancel, cacheVars, ops, prev,
                   mangleVars, token, reader>>

\* lines 329-335: the next block of response.iter_content is written and
\* counted, and reported when a length was declared; after the last one the
\* file is closed and the loop goes to the next file
rd_stream ==
    /\ pc = "rd_stream"
    /\ LET n == Min(chunk_size, frame.body - frame.downloaded)
           file == frame.files_list[frame.k]
           downloaded == frame.downloaded + n
       IN  IF n = 0
           THEN /\ frame' = [frame EXCEPT !.k = frame.k + 1]
                /\ pc' = "rd_file"
           ELSE /\ frame' = [frame EXCEPT
                       !.downloaded = downloaded,
                       !.written = Append(frame.written,
                                          [name |-> file.name, bytes |-> n]),
                       !.progress =
                           IF frame.total # 0
                           THEN Append(frame.progress,
                                       Percent(downloaded, frame.total))
                           ELSE frame.progress]
                /\ UNCHANGED pc
    /\ UNCHANGED <<serviceVars, cancel, cacheVars, log, result, ops, prev,
                   mangleVars, token, reader>>

InitDownload ==
    /\ remote = {}
    /\ nextId = 1
    /\ cancel \in BOOLEAN
    /\ all_fj_entries = None
    /\ all_fj_folders = None
    /\ log = <<>>
    /\ pc = "idle"
    /\ result = "none"
    /\ frame = NoFrame
    /\ ops = 0
    /\ prev = NoCall
    /\ segment = ""
    /\ mangled = None
    /\ token = None
    /\ reader = None

NextDownload ==
    \/ \E files_list \in ReadLists : api_read(files_list)
    \/ \E files_list \in ReadLists : ops_read(files_list)
    \/ rd_file
    \/ rd_stream
    \/ SetCancel

SpecDownload == InitDownload /\ [][NextDownload]_vars

\* C5: once the flag is set during a read, at most the block in hand is
\* still written, and read returns without raising.
C5_CancelStopsDownload ==
    (frame.op = "read" /\ frame.cancelled_at # Never) =>
        Len(frame.written) <= frame.cancelled_at + 1

\* reads alone: the loop of read never looks at the cancel flag, so what
\* it reports is the same whoever sets the flag meanwhile
NextProgress ==
    \/ \E files_list \in ReadLists : api_read(files_list)
    \/ \E files_list \in ReadLists : ops_read(files_list)
    \/ rd_file
    \/ rd_stream

SpecProgress == InitDownload /\ [][NextProgress]_vars

\* what C32 says of one step of a read
ProgressStep ==
    LET p == frame.progress
        q == frame'.progress
    IN  /\ q # p =>
               /\ frame.total # 0
               /\ q = Append(p, (frame'.downloaded * 100) \div frame.total)
               /\ frame.downloaded > 0 =>
                      (p # <<>> /\ p[Len(p)] <= q[Len(q)])
               /\ frame.total = frame.body => q[Len(q)] \in 0..100
        /\ ( /\ pc = "rd_stream"
              /\ frame'.k = frame.k + 1
              /\ frame.total # 0
              /\ frame.total = frame.body )
           => (p # <<>> /\ p[Len(p)] = 100)

\* C32: a read reports progress only for a response that declares a
\* length other than 0; each report is the integer part of
\* downloaded * 100 / total; the reports of one file never fall; and for a
\* file whose declared length is the length streamed every report lies in
\* 0..100 and the last one, made before the file is left, is 100.
C32_DownloadPercent ==
    [][(frame.op = "read" /\ frame'.op = "read" /\ ops' = ops)
           => ProgressStep]_vars

C32_Witness ==
    /\ frame.op = "read"
    /\ frame.k = 2
    /\ frame.total = 3 * (chunk_size \div 2)
    /\ frame.progress = <<66, 100>>

(***************************************************************************)
(* json.dumps and json.loads on the texts a description can hold here:     *)
(* objects whose keys are strings and whose values are strings or objects, *)
(* and strings, over characters that json.dumps escapes as \" and \\ or    *)
(* leaves alone.  Every other text is one json.loads raises on.            *)
(***************************************************************************)

\* the character at position i of text, "" past its end
Char(text, i) == IF i <= Len(text) THEN SubSeq(text, i, i) ELSE ""

\* a string written between the quotes as it is
NoEscape(s) == s

\* the string between the quotes json.dumps writes
RECURSIVE Escape(_)
Escape(s) ==
    IF s = "" THEN ""
    ELSE LET ch == Char(s, 1)
             rest == Escape(SubSeq(s, 2, Len(s)))
         IN  IF ch = "\"" \/ ch = "\\" THEN "\\" \o ch \o rest ELSE ch \o rest

\* json.dumps(s) for a string s
Quoted(s) == "\"" \o Escape(s) \o "\""

\* lines 223-228: json.dumps({"SHA256": h, "ctime": c, "utime": m})
json_dumps(h, c, m) ==
    "{" \o Quoted("SHA256") \o ": " \o Quoted(h) \o ", "
        \o Quoted("ctime") \o ": " \o Quoted(c) \o ", "
        \o Quoted("utime") \o ": " \o Quoted(m) \o "}"

\* the first position at or after i that holds no blank
RECURSIVE SkipBlanks(_, _)
SkipBlanks(text, i) ==
    IF Char(text, i) = " " THEN SkipBlanks(text, i + 1) ELSE i

NoParse == [ok |-> FALSE]

\* the rest of a string literal, from position i inside it: its value acc so
\* far, up to the closing quote
RECURSIVE ParseString(_, _, _)
ParseString(text, i, acc) ==
    LET ch == Char(text, i) IN
    IF ch = "" THEN NoParse
    ELSE IF ch = "\""
    THEN [ok |-> TRUE, kind |-> "str", val |-> acc, pos |-> i + 1]
    ELSE IF ch = "\\"
    THEN IF Char(text, i + 1) \in {"\"", "\\"}
         THEN ParseString(text, i + 2, acc \o Char(text, i + 1))
         ELSE NoParse
    ELSE ParseString(text, i + 1, acc \o ch)

RECURSIVE ParseValue(_, _)
RECURSIVE ParseMembers(_, _, _)

\* what a parsed value leaves in the object that holds it
Held(value) == IF value.kind = "str" THEN value.val ELSE [dict |-> value.val]

\* after a member, at position after: "," and the next one, or "}"
MemberNext(text, after, more) ==
    IF Char(text, after) = "," THEN ParseMembers(text, after + 1, more)
    ELSE IF Char(text, after) = "}"
    THEN [ok |-> TRUE, kind |-> "dict", val |-> more, pos |-> after + 1]
    ELSE NoParse

\* a member whose key and value are parsed; a later member replaces an
\* earlier one of the same key
MemberEnd(text, key, value, dict) ==
    IF ~value.ok THEN NoParse
    ELSE MemberNext(text, SkipBlanks(text, value.pos),
                    Put(dict, key, Held(value)))

\* a member whose key is parsed: ":" at position colon, then its value
MemberValue(text, key, colon, dict) ==
    IF ~key.ok \/ Char(text, colon) # ":" THEN NoParse
    ELSE MemberEnd(text, key.val, ParseValue(text, colon + 1), dict)

\* a member from position k, which holds no blank: its key is a string
MemberKey(text, k, key, dict) ==
    IF Char(text, k) # "\"" THEN NoParse
    ELSE MemberValue(text, key,
                     IF key.ok THEN SkipBlanks(text, key.pos) ELSE k, dict)

\* the members of an object from position i, after "{" or ",": dict holds
\* the ones before
ParseMembers(text, i, dict) ==
    MemberKey(text, SkipBlanks(text, i),
              ParseString(text, SkipBlanks(text, i) + 1, ""), dict)

\* a value from position k, which holds no blank: a string or an object
ValueAt(text, k, inside) ==
    IF Char(text, k) = "\"" THEN ParseString(text, k + 1, "")
    ELSE IF Char(text, k) = "{"
    THEN IF Char(text, inside) = "}"
         THEN [ok |-> TRUE, kind |-> "dict", val |-> <<>>, pos |-> inside + 1]
         ELSE ParseMembers(text, k + 1, <<>>)
    ELSE NoParse

\* a value from position i
ParseValue(text, i) ==
    ValueAt(text, SkipBlanks(text, i), SkipBlanks(text, SkipBlanks(text, i) + 1))

\* the whole text is one value and blanks
Loaded(text, value) ==
    IF ~value.ok THEN [kind |-> "error"]
    ELSE IF SkipBlanks(text, value.pos) <= Len(text) THEN [kind |-> "error"]
    ELSE [kind |-> value.kind, val |-> value.val]

\* json.loads(text): the dict, another value (kind "str"), or
\* JSONDecodeError (kind "error")
json_loads(text) == Loaded(text, ParseValue(text, 1))

\* dict.get(key, default)
Get(dict, key, default) == IF key \in DOMAIN dict THEN dict[key] ELSE default

\* "except" that catches json.JSONDecodeError alone
ExceptJSONDecodeError(kind) == kind = "error"

\* line 278, "except Exception": what json.loads raises (kind "error") and
\* the AttributeError of .get on a value that is no dict (kind "str")
ExceptPass(kind) == TRUE

\* lines 266-279: the hash and the times of an entry's record, from its
\* description when that holds a JSON object, else the service's times and
\* no hash; raised: an exception left the try statement
Fingerprint(entry) ==
    LET desc == Get(entry, "description", "")
        desc_json == json_loads(desc)
        plain == [sha256 |-> "", ctime |-> Get(entry, "created_at", ""),
                  mtime |-> Get(entry, "updated_at", ""), raised |-> FALSE]
    IN  IF desc = "" THEN plain
        ELSE IF desc_json.kind = "dict"
        THEN [sha256 |-> Get(desc_json.val, "SHA256", ""),
              ctime |-> Get(desc_json.val, "ctime", ""),
              mtime |-> Get(desc_json.val, "utime", ""),
              raised |-> FALSE]
        ELSE [plain EXCEPT !.raised = ~ExceptPass(desc_json.kind)]

(***************************************************************************)
(* FjOperations.read_directory_tree (FjOperations.py 243-294) and          *)
(* FjOperations.write (FjOperations.py 178-241), over the class-level      *)
(* lists _all_fj_entries and _all_fj_folders (FjOperations.py 38-51).      *)
(***************************************************************************)
\* int(s) for a string of decimal digits
Digit(c) == CHOOSE d \in 0..9 : ToString(d) = c

RECURSIVE int(_)
int(s) ==
    IF Len(s) = 0 THEN 0
    ELSE int(SubSeq(s, 1, Len(s) - 1)) * 10 + Digit(SubSeq(s, Len(s), Len(s)))

\* line 252: {int(item["id"]): item["name"] for item in self.all_fj_folders}
IdToName(list) ==
    [n \in {list[k].id : k \in DOMAIN list} |->
        LET last == CHOOSE k \in DOMAIN list :
                        /\ list[k].id = n
                        /\ \A j \in DOMAIN list : list[j].id = n => j <= k
        IN  list[last].name]

\* line 254 with the entry's own id left out of the ids looked through
SelectedBelow(entry, local_path) ==
    \/ local_path = Some("0")
    \/ /\ local_path # None
       /\ local_path[1] \in Range(split(entry.path, "/"))
       /\ local_path[1] # ToString(entry.id)

\* line 254: local_path == "0" or local_path in entry.get('path').split("/")
Selected(entry, local_path) ==
    \/ local_path = Some("0")
    \/ /\ local_path # None
       /\ local_path[1] \in Range(split(entry.path, "/"))

\* lines 255-265 without the "else" of line 262: an id that is the id of no
\* known folder leaves no segment
TranslateResolvedOnly(entry, dj_all_folders) ==
    LET p == SelectSeq(split(entry.path, "/"),
                       LAMBDA e : e # ToString(entry.id)
                                      /\ int(e) \in DOMAIN dj_all_folders)
        pp == [k \in 1..Len(p) |-> dj_all_folders[int(p[k])]]
    IN  join("\\", Append(pp, entry.name))

\* lines 255-265: the segments of the path other than the entry's own id,
\* each the name of the folder with that id when there is one, then the
\* entry's name, joined by "\"
Translate(entry, dj_all_folders) ==
    LET p == SelectSeq(split(entry.path, "/"),
                       LAMBDA e : e # ToString(entry.id))
        pp == [k \in 1..Len(p) |->
                  IF int(p[k]) \in DOMAIN dj_all_folders
                  THEN dj_all_folders[int(p[k])]
                  ELSE p[k]]
    IN  join("\\", Append(pp, entry.name))

\* lines 266-289: the record of an entry
entry_to_add(entry, dj_all_folders) ==
    [path |-> entry.path, ppath |-> Translate(entry, dj_all_folders),
     name |-> entry.name, ctime |-> Fingerprint(entry).ctime,
     mtime |-> Fingerprint(entry).mtime,
     size |-> Get(entry, "file_size", ""),
     sha256 |-> Fingerprint(entry).sha256, id |-> entry.id]

\* the two lists read_directory_tree returns; raised: an exception left the
\* loop over the entries
Listing(entries, folders, local_path) ==
    LET dj_all_folders == IdToName(folders)
        chosen == SelectSeq(entries, LAMBDA e : Selected(e, local_path))
        records(type) ==
            LET of == SelectSeq(chosen, LAMBDA e : (e.type = "folder") = type)
            IN  [k \in 1..Len(of) |-> entry_to_add(of[k], dj_all_folders)]
    IN  [fj_entries |-> records(FALSE), fj_folders |-> records(TRUE),
         raised |-> \E k \in DOMAIN chosen : Fingerprint(chosen[k]).raised]

read_directory_tree(local_path) ==
    /\ Begin
    /\ frame' = [op |-> "read_directory_tree", local_path |-> local_path,
                 fj_entries |-> <<>>, fj_folders |-> <<>>, raised |-> "none"]
    /\ pc' = "rt_list"
    /\ result' = "none"
    /\ UNCHANGED <<serviceVars, cancel, cacheVars, mangleVars, token, reader>>

\* lines 250-294; the first access to self.all_fj_folders reads the tree
\* when nothing is cached, and what that raises leaves the method
rt_list ==
    /\ pc = "rt_list"
    /\ \E tree \in TreeReads :
         /\ LoadCache(tree)
         /\ cancel' = IF CacheLoaded THEN cancel ELSE CancelAfter(tree)
         /\ log' = IF CacheLoaded THEN log ELSE Record(tree.lists)
         /\ IF ~CacheLoaded /\ tree.raised
            THEN /\ frame' = [frame EXCEPT !.raised = "read_tree"]
                 /\ Return("FJError")
            ELSE LET listing ==
                         IF CacheLoaded
                         THEN Listing(all_fj_entries[1], all_fj_folders[1],
                                      frame.local_path)
                         ELSE Listing(tree.entries, tree.folders,
                                      frame.local_path)
                 IN  IF listing.raised
                     THEN /\ frame' = [frame EXCEPT !.raised = "decode"]
                          /\ Return("AttributeError")
                     ELSE /\ frame' = [frame EXCEPT
                                 !.fj_entries = listing.fj_entries,
                                 !.fj_folders = listing.fj_folders]
                          /\ Return("ok")
    /\ UNCHANGED <<serviceVars, ops, prev, mangleVars, token, reader>>

\* line 233: self.create_folders(files_list), parent_id left None
write(files_list) ==
    /\ Begin
    /\ frame' = Locals("write", files_list, None)
                    @@ [empty_root |-> remote = {}]
    /\ pc' = IF files_list = <<>> THEN "wr_tree" ELSE "cf_index"
    /\ result' = "none"
    /\ UNCHANGED <<serviceVars, cancel, cacheVars, mangleVars, token, reader>>

\* item["ppath"] for every folder of the list (line 235): line 170 alone
\* puts that key on a folder, the entries of a listing have none
HasPpath(folders) == \A k \in DOMAIN folders : "ppath" \in DOMAIN folders[k]

\* lines 234-236: read_directory_tree(None) selects no entry (line 254)
\* and its lists are dropped; the dict of line 235 is a KeyError for a
\* folder without ppath; then the loop over files_list, over at once for
\* an empty list
wr_tree ==
    /\ pc = "wr_tree"
    /\ \E tree \in TreeReads :
         /\ LoadCache(tree)
         /\ cancel' = IF CacheLoaded THEN cancel ELSE CancelAfter(tree)
         /\ log' = IF CacheLoaded THEN log ELSE Record(tree.lists)
         /\ IF ~CacheLoaded /\ tree.raised
            THEN /\ frame' = [frame EXCEPT !.raised = "read_tree"]
                 /\ Return("FJError")
            ELSE IF ~HasPpath(IF CacheLoaded THEN all_fj_folders[1]
                              ELSE tree.folders)
            THEN /\ frame' = [frame EXCEPT !.raised = "item[ppath]"]
                 /\ Return("KeyError")
            ELSE IF frame.files_list = <<>>
            THEN /\ Return("ok")
                 /\ UNCHANGED frame
            ELSE /\ pc' = "wr_file"
                 /\ UNCHANGED <<frame, result>>
    /\ UNCHANGED <<serviceVars, ops, prev, mangleVars, token, reader>>

(***************************************************************************)
(* write, delete and read_directory_tree called one after another on a     *)
(* remote tree of up to MaxEntries entries.                                *)
(***************************************************************************)
WritePaths == {"x\\y", "e01\\y"}

WriteLists ==
    UNION {ListsOfLen({[name |-> "a.txt", ppath |-> q] : q \in WritePaths}, n)
           : n \in 0..MaxFiles}

LocalPaths == {None, Some("0"), Some("1")}

InitSync == InitDelete

NextSync ==
    \/ \E files_list \in WriteLists : write(files_list)
    \/ cf_index
    \/ cf_segment
    \/ cf_try
    \/ wr_tree
    \/ \E local_path \in LocalPaths : read_directory_tree(local_path)
    \/ rt_list
    \/ \E file_list \in FileLists(remote) : delete(file_list)
    \/ delete_entries
    \/ delete_read_tree
    \/ delete_scan
    \/ delete_prune

SpecSync == InitSync /\ [][NextSync]_vars

(***************************************************************************)
(* write called again and again on a remote tree of up to MaxRoot entries. *)
(***************************************************************************)
MaxRoot == 1

InitWrite == InitDelete /\ Cardinality(remote) <= MaxRoot

NextWrite ==
    \/ \E files_list \in WriteLists : write(files_list)
    \/ cf_index
    \/ cf_segment
    \/ cf_try
    \/ wr_tree

SpecWrite == InitWrite /\ [][NextWrite]_vars

\* no write with a file to upload gets as far as the loop of line 236
WriteLoopNotEntered == pc # "wr_file"

\* a cause of failure that lies with the service and not with write
ServiceFailed == frame.raised \in {"read_tree", "attempts", "no folder data"}

\* C7: a write of one file under a two-segment path on an empty remote
\* root, the service answering every request, returns normally after
\* exactly two create-folder requests.
C7_WriteOnEmptyRoot ==
    ( /\ ReturnedFrom("write")
      /\ frame.empty_root
      /\ Len(frame.files_list) = 1
      /\ Len(PathList(frame.files_list[1])) = 2
      /\ ~ServiceFailed )
    => /\ result = "ok"
       /\ Len(Creates(log)) = 2

\* the ids of the records of a listing
ListedIds(fr) == Range(IdsOf(fr.fj_entries)) \cup Range(IdsOf(fr.fj_folders))

\* C8: what a read_directory_tree lists is on the remote when it returns,
\* so nothing an earlier delete removed is listed.
C8_ListingIsCurrent ==
    (ReturnedFrom("read_directory_tree") /\ result = "ok")
        => ListedIds(frame) \subseteq Ids(remote)

\* the set-description requests among a list of requests
Descriptions(requests) ==
    SelectSeq(requests, LAMBDA r : r.req = "set_description")

\* an exception left create_folders (lines 141-176)
CreateFoldersFailed(fr) ==
    \/ fr.raised \in {"None.ljust", "folders_list[parent_folder]",
                      "attempts", "no folder data"}
    \/ fr.raised = "read_tree" /\ fr.files_list # <<>>

\* C13: a write of a list of files whose create_folders and tree read did
\* not fail attempts every file of the list: there is an upload request
\* for each, whatever became of the files before it.
C13_EveryFileAttempted ==
    (ReturnedFrom("write") /\ frame.raised \notin {"read_tree"}
        /\ ~CreateFoldersFailed(frame))
    => Len(Uploads(log)) >= Len(frame.files_list)

\* C14: once create_folders has failed inside write, write is over with
\* what create_folders raised, and has issued no upload and no
\* set-description request.
C14_ProvisioningErrorAborts ==
    (frame.op = "write" /\ CreateFoldersFailed(frame))
    => /\ pc = "idle"
       /\ result \in {"FJError", "KeyError", "AttributeError"}
       /\ Uploads(log) = <<>>
       /\ Descriptions(log) = <<>>

C14_Witness ==
    /\ ReturnedFrom("write")
    /\ frame.raised = "attempts"
    /\ result = "FJError"
    /\ Len(Creates(log)) > 0

\* C15: a write of a list of files whose create_folders and tree read did
\* not fail returns normally, stopped between two files or not.
C15_WriteReturnsNormally ==
    (ReturnedFrom("write") /\ frame.files_list # <<>>
        /\ frame.raised \notin {"read_tree"}
        /\ ~CreateFoldersFailed(frame))
    => result = "ok"

\* the places in the log of the requests of one kind, in their order
Places(req) == SortedSeq({k \in DOMAIN log : log[k].req = req})

\* C27: a write of a list of files whose create_folders and tree read did
\* not fail has issued every create-folder request before its first
\* upload request, and then one upload request for each file of the list,
\* in the order of the list, with the set-description request of a file
\* after the file's upload request and before the next file's.
C27_FoldersThenFilesInOrder ==
    (ReturnedFrom("write") /\ frame.files_list # <<>>
        /\ frame.raised \notin {"read_tree"}
        /\ ~CreateFoldersFailed(frame))
    => LET uploads == Places("upload")
           last == Len(frame.files_list)
       IN  /\ Len(uploads) = last
           /\ \A c \in Range(Places("create_folder")) : c < uploads[1]
           /\ \A d \in Range(Places("set_description")) :
                  \E k \in 1..last :
                      /\ uploads[k] < d
                      /\ k < last => d < uploads[k + 1]

\* C37: a write of a list of files whose create_folders and tree read did
\* not fail takes every file to an end of its own, described after its
\* upload or given up with the error caught: it returns normally, with an
\* upload request for every file, at most one set-description request for
\* each upload, and no delete request.
C37_FileDoneOrLeftUploaded ==
    (ReturnedFrom("write") /\ frame.files_list # <<>>
        /\ frame.raised \notin {"read_tree"}
        /\ ~CreateFoldersFailed(frame))
    => /\ result \notin {"KeyError", "AttributeError", "NameError"}
       /\ Len(Uploads(log)) = Len(frame.files_list)
       /\ Len(Descriptions(log)) <= Len(Uploads(log))
       /\ Deletes(log) = <<>>

\* C39: a write of a list of files whose create_folders and tree read did
\* not fail uploads the first file of the list before it looks at the stop
\* signal (line 239), so also when the signal was set from the start:
\* there is an upload request, after every create-folder request.
C39_FirstFileBeforeStop ==
    (ReturnedFrom("write") /\ frame.files_list # <<>>
        /\ frame.raised \notin {"read_tree"}
        /\ ~CreateFoldersFailed(frame))
    => /\ Places("upload") # <<>>
       /\ \A c \in Range(Places("create_folder")) : c < Places("upload")[1]

\* the request at position k of the log is a create-folder request, and
\* the n requests after it are the same one, each after a sleep
Reissued(k, n) ==
    /\ k + 2 * n <= Len(log)
    /\ log[k].req = "create_folder"
    /\ \A j \in 1..n : /\ log[k + 2 * j - 1].req = "sleep"
                       /\ log[k + 2 * j] = log[k]

MaxSegLen == 4
Alphabet == {"a", "b", "_"}

RECURSIVE StringsOfLen(_)
StringsOfLen(n) ==
    IF n = 0 THEN {""} ELSE {s \o c : s \in StringsOfLen(n - 1), c \in Alphabet}

Segments == UNION {StringsOfLen(n) : n \in 0..MaxSegLen}

InitOther ==
    /\ remote = {}
    /\ nextId = 1
    /\ cancel = FALSE
    /\ all_fj_entries = None
    /\ all_fj_folders = None
    /\ log = <<>>
    /\ pc = "idle"
    /\ result = "none"
    /\ frame = NoFrame
    /\ ops = 0
    /\ prev = NoCall

InitMangle ==
    /\ InitOther
    /\ segment \in Segments
    /\ mangled = None
    /\ token = None
    /\ reader = None

MangleSegment ==
    /\ mangled = None
    /\ mangled' = Some(Mangle(segment))
    /\ UNCHANGED <<remote, nextId, cancel, all_fj_entries, all_fj_folders, log,
                   pc, result, frame, ops, prev, segment, token, reader>>

NextMangle == MangleSegment

SpecMangle == InitMangle /\ [][NextMangle]_vars

\* C10: a segment shorter than 3 characters is mangled to exactly 3
\* characters that begin with the segment; a segment of 3 or more
\* characters is mangled to itself.
C10_MangleCorrect ==
    mangled # None =>
        IF Len(segment) < 3
        THEN /\ Len(mangled[1]) = 3
             /\ SubSeq(mangled[1], 1, Len(segment)) = segment
        ELSE mangled[1] = segment

C10_Witness ==
    /\ mangled # None
    /\ Len(segment) = 1
    /\ Len(mangled[1]) = 3

(***************************************************************************)
(* The fingerprint on its own: the description write_file makes of a hash  *)
(* and two times (FjOperations.py 223-229), FileJumpApi.set_description    *)
(* (FileJumpApi.py 265-285), and read_directory_tree reading it back, on   *)
(* a remote root holding one file whose description is absent or is no     *)
(* JSON object.                                                            *)
(***************************************************************************)
\* the hashes and the times (str(datetime)) a file may come with: a hash
\* and two times of which at most one is not "", and two of three values
Values == {"", "a", "\"", "\\"}

Fingerprints ==
    {t \in Values \X Values \X Values :
        Cardinality({i \in 1..3 : t[i] # ""}) <= 1}
    \cup {<<"a", "\"", "\\">>, <<"\\", "a\"", "a">>}

\* descriptions that hold no JSON object: a description cut short, a JSON
\* string, and other texts
CutShort(text) == {SubSeq(text, 1, n) : n \in 1..(Len(text) - 1)}

Garbage ==
    CutShort("{\"SHA256\": \"\\\"\"}") \cup
        {"a", "\"a\"", "{\"SHA256\"}", "{} a", "{\"SHA256\": \"a\",}"}

\* descriptions that hold a JSON object without the keys of a fingerprint
Keyless == {"{}", "{\"a\": \"a\"}"}

DescribedFile(description) ==
    [id |-> 1, name |-> "e01", type |-> "file", parent_id |-> RootId,
     description |-> description, created_at |-> "c0", updated_at |-> "u0"]

SetDescriptionRequest(entry_id, description) ==
    [req |-> "set_description", id |-> entry_id, description |-> description]

\* lines 223-229 of write_file: desc = json.dumps({...}) of the hash and the
\* times of the local file, then self.api.set_description(entry_id, desc)
set_description(entry_id, h, c, m) ==
    /\ Begin
    /\ frame' = [op |-> "set_description", entry_id |-> entry_id,
                 fingerprint |-> [SHA256 |-> h, ctime |-> c, utime |-> m],
                 description |-> json_dumps(h, c, m), raised |-> "none"]
    /\ pc' = "sd_put"
    /\ result' = "none"
    /\ UNCHANGED <<serviceVars, cancel, cacheVars, mangleVars, token, reader>>

\* FileJumpApi.py 273-285: PUT file-entries/{id}; answered 200, the entry
\* has the description; another status raises FJError
sd_put ==
    /\ pc = "sd_put"
    /\ log' = Record(<<SetDescriptionRequest(frame.entry_id,
                                              frame.description)>>)
    /\ \/ /\ frame.entry_id \in Ids(remote)
          /\ remote' = {[e EXCEPT !.description =
                             IF e.id = frame.entry_id THEN frame.description
                             ELSE e.description] : e \in remote}
          /\ Return("ok")
          /\ UNCHANGED frame
       \/ /\ frame' = [frame EXCEPT !.raised = "bad status"]
          /\ Return("FJError")
          /\ UNCHANGED remote
    /\ UNCHANGED <<nextId, cancel, cacheVars, ops, prev,
                   mangleVars, token, reader>>

InitFingerprint ==
    /\ \E description \in {""} \cup Garbage \cup Keyless :
           remote = {DescribedFile(description)}
    /\ nextId = 2
    /\ cancel = FALSE
    /\ all_fj_entries = None
    /\ all_fj_folders = None
    /\ log = <<>>
    /\ pc = "idle"
    /\ result = "none"
    /\ frame = NoFrame
    /\ ops = 0
    /\ prev = NoCall
    /\ segment = ""
    /\ mangled = None
    /\ token = None
    /\ reader = None

NextFingerprint ==
    \/ \E t \in Fingerprints : set_description(1, t[1], t[2], t[3])
    \/ sd_put
    \/ \E local_path \in {Some("0"), Some("1")} : read_directory_tree(local_path)
    \/ rt_list

SpecFingerprint == InitFingerprint /\ [][NextFingerprint]_vars

\* the records of a listing with this id
RecordsOf(fr, id) ==
    {fr.fj_entries[k] : k \in {j \in DOMAIN fr.fj_entries :
                                  fr.fj_entries[j].id = id}}
    \cup {fr.fj_folders[k] : k \in {j \in DOMAIN fr.fj_folders :
                                       fr.fj_folders[j].id = id}}

\* C11: a read_directory_tree that reads the tree after a set_description
\* of the description made of h, c and m was answered 200 gives the entry
\* one record, with sha256 = h, ctime = c and mtime = m.
C11_RoundTrip ==
    ( /\ ReturnedFrom("read_directory_tree")
      /\ log # <<>>
      /\ result = "ok"
      /\ prev.call.op = "set_description"
      /\ prev.result = "ok" )
    => /\ RecordsOf(frame, prev.call.entry_id) # {}
       /\ \A r \in RecordsOf(frame, prev.call.entry_id) :
              /\ r.sha256 = prev.call.fingerprint.SHA256
              /\ r.ctime = prev.call.fingerprint.ctime
              /\ r.mtime = prev.call.fingerprint.utime

C11_Witness ==
    /\ ReturnedFrom("read_directory_tree")
    /\ log # <<>>
    /\ result = "ok"
    /\ prev.call.op = "set_description"
    /\ prev.result = "ok"
    /\ prev.call.fingerprint = [SHA256 |-> "\\", ctime |-> "a\"", utime |-> "a"]
    /\ RecordsOf(frame, 1) # {}

\* the entries read_directory_tree works on that its filter selects
Worked(fr) ==
    {all_fj_entries[1][k] : k \in {j \in DOMAIN all_fj_entries[1] :
        Selected(all_fj_entries[1][j], fr.local_path)}}

\* C12: a read_directory_tree whose tree read did not fail returns
\* normally, and an entry whose description is absent or holds no
\* fingerprint has one record, with no hash: with the times of the service
\* when the description holds no JSON object, with no times when it holds
\* an object without the keys.
C12_DecodeNeverRaises ==
    (ReturnedFrom("read_directory_tree") /\ frame.raised # "read_tree")
    => /\ result = "ok"
       /\ \A e \in Worked(frame) :
              /\ e.description \in {""} \cup Garbage =>
                     /\ RecordsOf(frame, e.id) # {}
                     /\ \A r \in RecordsOf(frame, e.id) :
                            /\ r.sha256 = ""
                            /\ r.ctime = e.created_at
                            /\ r.mtime = e.updated_at
              /\ e.description \in Keyless =>
                     /\ RecordsOf(frame, e.id) # {}
                     /\ \A r \in RecordsOf(frame, e.id) :
                            r.sha256 = "" /\ r.ctime = "" /\ r.mtime = ""

C12_Witness ==
    /\ ReturnedFrom("read_directory_tree")
    /\ result = "ok"
    /\ \E e \in Worked(frame) :
           /\ e.description = "\"a\""
           /\ RecordsOf(frame, e.id) # {}

\* what the description of an entry carries under a key, otherwise the
\* value given
Carried(entry, key, otherwise) ==
    LET desc_json == json_loads(entry.description)
    IN  IF desc_json.kind = "dict" /\ key \in DOMAIN desc_json.val
        THEN desc_json.val[key]
        ELSE otherwise

\* C21: in every record of a read_directory_tree, the hash is the one the
\* description carries, else empty, and each time is the one the
\* description carries, else the time the service gave the entry; so a
\* description that is a JSON object without a time key leaves the
\* service's time in the record.
C21_FingerprintElseService ==
    (ReturnedFrom("read_directory_tree") /\ result = "ok")
    => \A e \in Worked(frame) :
           \A r \in RecordsOf(frame, e.id) :
               /\ r.sha256 = Carried(e, "SHA256", "")
               /\ r.ctime = Carried(e, "ctime", e.created_at)
               /\ r.mtime = Carried(e, "utime", e.updated_at)

(***************************************************************************)
(* The path translation of read_directory_tree on its own                  *)
(* (FjOperations.py 252-265): an entry whose path the service reports as   *)
(* up to MaxDepth ancestor ids and its own id, and a list of folders that  *)
(* holds any of the ids.                                                   *)
(***************************************************************************)
MaxDepth == 2

PathIds == {1, 2, 12}

FolderName(id) == "f" \o ToString(id)

\* the lists of up to n elements of S
ListsUpTo(S, n) == UNION {ListsOfLen(S, k) : k \in 0..n}

\* the ids of a list as the strings of a path
Strings(ids) == [k \in 1..Len(ids) |-> ToString(ids[k])]

\* an entry as the service lists it under these ancestors
PathEntry(id, ancestors) ==
    [id |-> id, name |-> "e" \o ToString(id), type |-> "file",
     path |-> join("/", Strings(Append(ancestors, id)))]

InitTranslate ==
    /\ remote = {}
    /\ nextId = 1
    /\ cancel = FALSE
    /\ all_fj_entries = None
    /\ all_fj_folders = None
    /\ log = <<>>
    /\ pc = "idle"
    /\ result = "none"
    /\ ops = 0
    /\ prev = NoCall
    /\ segment = ""
    /\ mangled = None
    /\ token = None
    /\ reader = None
    /\ \E id \in PathIds, known \in SUBSET PathIds :
       \E ancestors \in {c \in ListsUpTo(PathIds \ {id}, MaxDepth) :
                            \A j, k \in DOMAIN c : c[j] = c[k] => j = k} :
           frame = [op |-> "translate", ancestors |-> ancestors,
                    entry |-> PathEntry(id, ancestors),
                    folders |-> [k \in 1..Cardinality(known) |->
                                    [id |-> SortedSeq(known)[k],
                                     name |-> FolderName(SortedSeq(known)[k])]],
                    ppath |-> None]

\* lines 252, 255-265
translate ==
    /\ frame.op = "translate"
    /\ frame.ppath = None
    /\ frame' = [frame EXCEPT
           !.ppath = Some(Translate(frame.entry, IdToName(frame.folders)))]
    /\ result' = "ok"
    /\ UNCHANGED <<remote, nextId, cancel, all_fj_entries, all_fj_folders, log,
                   pc, ops, prev, segment, mangled, token, reader>>

NextTranslate == translate

SpecTranslate == InitTranslate /\ [][NextTranslate]_vars

\* C22: the translated path of an entry has one segment for each ancestor
\* id of its path, in their order, and then the entry's name: the name of
\* the folder with that id when the list of folders holds one, else the id
\* as it stands in the path; the entry's own id leaves no segment, and an
\* id that no folder has does not make the translation fail.
C22_PathTranslation ==
    (frame.op = "translate" /\ frame.ppath # None)
    => LET segments == split(frame.ppath[1], "\\")
           ancestors == frame.ancestors
       IN  /\ result = "ok"
           /\ Len(segments) = Len(ancestors) + 1
           /\ segments[Len(segments)] = frame.entry.name
           /\ \A k \in DOMAIN ancestors :
                  IF \E j \in DOMAIN frame.folders :
                         frame.folders[j].id = ancestors[k]
                  THEN segments[k] = FolderName(ancestors[k])
                  ELSE segments[k] = ToString(ancestors[k])

C22_Witness ==
    /\ frame.op = "translate"
    /\ frame.ppath # None
    /\ frame.ancestors = <<12, 2>>
    /\ frame.entry.id = 1
    /\ IdsOf(frame.folders) = <<2>>
    /\ frame.ppath[1] = "12\\f2\\e1"

(***************************************************************************)
(* read_directory_tree called again and again, with each filter, on a      *)
(* remote tree of up to MaxEntries entries that nothing changes.           *)
(***************************************************************************)
ListingPaths == {None, Some("0"), Some("1"), Some("2")}

InitListing == InitDelete

NextListing ==
    \/ \E local_path \in ListingPaths : read_directory_tree(local_path)
    \/ rt_list

SpecListing == InitListing /\ [][NextListing]_vars

\* how many elements of a list have this id
CountOf(list, id) == Cardinality({k \in DOMAIN list : list[k].id = id})

\* the entry lies in the subtree of the folder the filter names, or is it,
\* or the filter names the root
Wanted(tree, entry, local_path) ==
    \/ local_path = Some("0")
    \/ /\ local_path # None
       /\ \E id \in Ids(tree) : /\ ToString(id) = local_path[1]
                                /\ UnderAny(tree, entry.id, {id})

\* C23: read_directory_tree gives every entry of the tree it works on one
\* record when the entry is the one the filter names or lies below it, or
\* when the filter is the root's, and no record otherwise; the record is in
\* the list of files when the entry is no folder, else in the list of
\* folders; and every record is the record of an entry.
C23_OneRecordPerSelected ==
    (ReturnedFrom("read_directory_tree") /\ result = "ok")
    => LET tree == Range(all_fj_entries[1]) IN
       /\ \A e \in tree :
              LET files == CountOf(frame.fj_entries, e.id)
                  folders == CountOf(frame.fj_folders, e.id)
              IN  IF Wanted(tree, e, frame.local_path)
                  THEN /\ files + folders = 1
                       /\ folders = 1 <=> e.type = "folder"
                  ELSE files = 0 /\ folders = 0
       /\ ListedIds(frame) \subseteq Ids(tree)

C23_Witness ==
    /\ ReturnedFrom("read_directory_tree")
    /\ result = "ok"
    /\ frame.local_path = Some("1")
    /\ IdsOf(frame.fj_folders) = <<1>>
    /\ IdsOf(frame.fj_entries) = <<2>>
    /\ Len(all_fj_entries[1]) = 3

Tokens == {"t1", "t2"}

Passwords == {"p", "q"}

LoginBody(isJson, empty, user, access_token) ==
    [json |-> isJson, empty |-> empty, user |-> user,
     access_token |-> access_token]

LoginBodies ==
    {LoginBody(FALSE, TRUE, "absent", None),
     LoginBody(TRUE, TRUE, "absent", None),
     LoginBody(TRUE, FALSE, "absent", None),
     LoginBody(TRUE, FALSE, "null", None),
     LoginBody(TRUE, FALSE, "dict", None)}
        \cup {LoginBody(TRUE, FALSE, "dict", Some(t)) : t \in Tokens}

LoginResponses == [status : {200, 401}, body : LoginBodies]

LoginRequest(email, password, token_name) ==
    [req |-> "login", email |-> email, password |-> password,
     token_name |-> token_name]

\* lines 95-98 alone: a login that does not look at the status
LoginUnchecked(response, old) ==
    IF ~response.body.json
    THEN [result |-> "JSONDecodeError", token |-> old]
    ELSE IF response.body.empty
    THEN [result |-> "FJError", token |-> old]
    ELSE IF response.body.user = "null"
    THEN [result |-> "AttributeError", token |-> old]
    ELSE [result |-> "ok", token |-> response.body.access_token]

\* lines 92-98: how login ends on a response, and self.token after it (old
\* before it): a status other than 200 raises FJError, response.json()
\* raises for a body that is no JSON, an empty body raises FJError;
\* data.get("user", {}).get("access_token", None) raises AttributeError
\* for a "user" that is no dict, and is None for a dict without the key and
\* for a body without "user"
Login(response, old) ==
    IF response.status # 200
    THEN [result |-> "FJError", token |-> old]
    ELSE IF ~response.body.json
    THEN [result |-> "JSONDecodeError", token |-> old]
    ELSE IF response.body.empty
    THEN [result |-> "FJError", token |-> old]
    ELSE IF response.body.user = "null"
    THEN [result |-> "AttributeError", token |-> old]
    ELSE [result |-> "ok", token |-> response.body.access_token]

\* lines 87-90: the request is made
login(email, password) ==
    /\ Begin
    /\ frame' = [op |-> "login", email |-> email, password |-> password,
                 before |-> token, response |-> None]
    /\ pc' = "lg_response"
    /\ result' = "none"
    /\ UNCHANGED <<serviceVars, cancel, cacheVars, mangleVars, token, reader>>

\* lines 91-98: the request is sent, and answered
lg_response ==
    /\ pc = "lg_response"
    /\ \E response \in LoginResponses :
         /\ frame' = [frame EXCEPT !.response = Some(response)]
         /\ token' = Login(response, token).token
         /\ result' = Login(response, token).result
    /\ log' = Record(<<LoginRequest(frame.email, frame.password,
                                    "test_token")>>)
    /\ pc' = "idle"
    /\ UNCHANGED <<serviceVars, cancel, cacheVars, ops, prev, mangleVars,
                   reader>>

\* FileJumpApi.token before the first login: None, or what set_token gave
InitLogin ==
    /\ remote = {}
    /\ nextId = 1
    /\ cancel = FALSE
    /\ all_fj_entries = None
    /\ all_fj_folders = None
    /\ log = <<>>
    /\ pc = "idle"
    /\ result = "none"
    /\ frame = NoFrame
    /\ ops = 0
    /\ prev = NoCall
    /\ segment = ""
    /\ mangled = None
    /\ token \in {None, Some("t0")}
    /\ reader = None

NextLogin ==
    \/ \E password \in Passwords : login("a@b", password)
    \/ lg_response

SpecLogin == InitLogin /\ [][NextLogin]_vars

\* C24: a login whose response has a status other than 200 raises FJError
\* and leaves the stored token as it was before the call, as does every
\* login that raises; after a login that returned normally the stored
\* token is the access token of the response (None when it has none).
C24_LoginFailureKeepsToken ==
    ReturnedFrom("login") =>
        LET response == frame.response[1] IN
        /\ response.status # 200 => result = "FJError"
        /\ result # "ok" => token = frame.before
        /\ result = "ok" =>
               /\ response.status = 200
               /\ token = response.body.access_token

C24_Witness ==
    /\ ReturnedFrom("login")
    /\ frame.response[1].status = 401
    /\ frame.response[1].body.access_token = Some("t2")
    /\ prev.call.op = "login"
    /\ prev.result = "ok"
    /\ token = Some("t1")
    /\ result = "FJError"

(***************************************************************************)
(* LocalFileReader (LocalFileReader.py 27-223): the file object fp, which  *)
(* is its position in the file, or None once closed, and _size, the size   *)
(* of the file when the reader was made.  Every method is one step.        *)
(***************************************************************************)
MaxFileSize == 2

SEEK_SET == 0
SEEK_CUR == 1
SEEK_END == 2

Max(a, b) == IF a >= b THEN a ELSE b

\* the state of the reader is in reader; the call and what it returned are
\* in frame
Called(method, returned) ==
    /\ frame' = [op |-> method, returned |-> returned]
    /\ pc' = "idle"
    /\ UNCHANGED <<serviceVars, cancel, cacheVars, mangleVars, token>>

\* lines 53-73: __init__
lfr_init(size) ==
    /\ Begin
    /\ reader' = [fp |-> Some(0), _size |-> size]
    /\ result' = "ok"
    /\ Called("__init__", None)

\* lines 75-99: read(size); fp.read gives what is left for a negative size
\* and nothing at or past the end of the file
lfr_read(size) ==
    /\ Begin
    /\ reader # None
    /\ IF reader.fp = None
       THEN /\ result' = "AttributeError"
            /\ Called("read", None)
            /\ UNCHANGED reader
       ELSE LET left == Max(0, reader._size - reader.fp[1])
                n == IF size < 0 THEN left ELSE Min(size, left)
            IN  /\ reader' = [reader EXCEPT !.fp = Some(reader.fp[1] + n)]
                /\ result' = "ok"
                /\ Called("read", Some(n))

\* lines 101-120: seek(pos, whence); fp.seek raises OSError for a position
\* before the start of the file, and takes one past its end
lfr_seek(pos, whence) ==
    /\ Begin
    /\ reader # None
    /\ IF reader.fp = None
       THEN /\ result' = "AttributeError"
            /\ UNCHANGED reader
       ELSE LET from == IF whence = SEEK_SET THEN 0
                        ELSE IF whence = SEEK_CUR THEN reader.fp[1]
                        ELSE reader._size
            IN  IF from + pos < 0
                THEN /\ result' = "OSError"
                     /\ UNCHANGED reader
                ELSE /\ result' = "ok"
                     /\ reader' = [reader EXCEPT !.fp = Some(from + pos)]
    /\ Called("seek", None)

\* lines 122-138: tell()
lfr_tell ==
    /\ Begin
    /\ reader # None
    /\ IF reader.fp = None
       THEN result' = "AttributeError" /\ Called("tell", None)
       ELSE result' = "ok" /\ Called("tell", reader.fp)
    /\ UNCHANGED reader

\* lines 140-160: close()
lfr_close ==
    /\ Begin
    /\ reader # None
    /\ reader' = [reader EXCEPT !.fp = None]
    /\ result' = "ok"
    /\ Called("close", None)

\* len(reader): the built-in raises ValueError when __len__ returns a
\* negative number
builtin_len(value) ==
    IF value < 0 THEN [result |-> "ValueError", returned |-> None]
    ELSE [result |-> "ok", returned |-> Some(value)]

\* lines 162-183: __len__, called by len(reader)
lfr_len ==
    /\ Begin
    /\ reader # None
    /\ IF reader.fp = None
       THEN result' = "AttributeError" /\ Called("len", None)
       ELSE LET length == builtin_len(reader._size - reader.fp[1])
            IN  result' = length.result /\ Called("len", length.returned)
    /\ UNCHANGED reader

InitReader ==
    /\ InitOther
    /\ segment = ""
    /\ mangled = None
    /\ token = None
    /\ reader = None

NextReader ==
    \/ \E size \in 0..MaxFileSize : lfr_init(size)
    \/ \E size \in -1..MaxFileSize : lfr_read(size)
    \/ \E pos \in (0 - MaxFileSize)..(MaxFileSize + 1),
          whence \in {SEEK_SET, SEEK_CUR, SEEK_END} : lfr_seek(pos, whence)
    \/ lfr_tell
    \/ lfr_close
    \/ lfr_len

SpecReader == InitReader /\ [][NextReader]_vars

\* C25: on an open reader, after whatever read and seek calls, len(reader)
\* returns the size of the file less the position tell() gives, the bytes
\* left to read; and every close() returns normally, the second as the
\* first.
C25_LenIsBytesLeft ==
    /\ (frame.op = "len" /\ reader.fp # None)
       => /\ result = "ok"
          /\ frame.returned = Some(reader._size - reader.fp[1])
    /\ frame.op = "close" => result = "ok"

(***************************************************************************)
(* FileJumpApi.get_files (FileJumpApi.py 220-231) and get_data             *)
(* (FileJumpApi.py 100-114), page by page.  The service answers a request  *)
(* for a page as it likes: with a status other than 200, with an empty     *)
(* body, or with a dict that may hold "data", a list of entries (their ids *)
(* here), and "next_page", null or a page number.  A service that reports  *)
(* a null next_page in the end: here at the latest in its answer to the    *)
(* request that is number MaxPages of the call.                            *)
(***************************************************************************)
MaxPages == 3

PageNumbers == {1, 2}

PageData == {<<>>, <<1>>, <<2, 3>>}

PathIdsAsked == {None, Some(0), Some(7)}

\* the answers to a request for a page: "status" for a status other than
\* 200, "empty" for an empty body, "no data" for a dict without "data"
PageResponses ==
    [kind : {"status", "empty"}, next_page : {None}, data : {<<>>}]
        \cup [kind : {"no data", "page"},
              next_page : {None} \cup {Some(n) : n \in PageNumbers},
              data : PageData]

\* lines 222-225: "if path_id" is false for None and for 0
PageRequest(path_id, page) ==
    [req |-> "page",
     parentIds |-> IF path_id = None \/ path_id = Some(0) THEN None
                   ELSE path_id,
     page |-> page]

\* line 230 as "files = data.get('data')"
Replaced(files, data) == data

\* line 230: files.extend(data.get("data", None))
Extended(files, data) == files \o data

\* lines 221-226
api_get_files(path_id) ==
    /\ Begin
    /\ frame' = [op |-> "get_files", path_id |-> path_id, files |-> <<>>,
                 next_page |-> Some(0), responses |-> <<>>,
                 raised |-> "none"]
    /\ pc' = "gf_page"
    /\ result' = "none"
    /\ UNCHANGED <<serviceVars, cancel, cacheVars, mangleVars, token, reader>>

\* lines 227-231: the test of "while next_page is not None" and, when it
\* holds, one turn of the loop: get_data raises FJError for a status other
\* than 200 and returns None for an empty body, on which data.get raises
\* AttributeError; files.extend(None) raises TypeError
gf_page ==
    /\ pc = "gf_page"
    /\ IF frame.next_page = None
       THEN /\ Return("ok")
            /\ UNCHANGED <<frame, log>>
       ELSE /\ log' = Record(<<PageRequest(frame.path_id,
                                           frame.next_page[1])>>)
            /\ \E response \in PageResponses :
                 /\ Len(log) + 1 >= MaxPages => response.next_page = None
                 /\ LET got == [frame EXCEPT
                            !.responses = Append(frame.responses, response)]
                    IN  IF response.kind = "status"
                        THEN /\ frame' = [got EXCEPT !.raised = "get_data"]
                             /\ Return("FJError")
                        ELSE IF response.kind = "empty"
                        THEN /\ frame' = [got EXCEPT !.raised = "None.get"]
                             /\ Return("AttributeError")
                        ELSE IF response.kind = "no data"
                        THEN /\ frame' = [got EXCEPT
                                    !.next_page = response.next_page,
                                    !.raised = "extend(None)"]
                             /\ Return("TypeError")
                        ELSE /\ frame' = [got EXCEPT
                                    !.next_page = response.next_page,
                                    !.files = Extended(frame.files,
                                                       response.data)]
                             /\ UNCHANGED <<pc, result>>
    /\ UNCHANGED <<serviceVars, cancel, cacheVars, ops, prev, mangleVars,
                   token, reader>>

InitPaging ==
    /\ InitOther
    /\ segment = ""
    /\ mangled = None
    /\ token = None
    /\ reader = None

NextPaging ==
    \/ \E path_id \in PathIdsAsked : api_get_files(path_id)
    \/ gf_page

SpecPaging == InitPaging /\ [][NextPaging]_vars

\* the thread running get_files keeps running
FairSpecPaging == SpecPaging /\ WF_vars(gf_page)

\* the data of the first n of a list of responses, one after another
RECURSIVE DataOf(_, _)
DataOf(responses, n) ==
    IF n = 0 THEN <<>> ELSE DataOf(responses, n - 1) \o responses[n].data

\* what C30 says of a state
PagesFollowed ==
    frame.op = "get_files" =>
        /\ Len(frame.responses) = Len(log)
        /\ log # <<>> => log[1].page = 0
        /\ \A k \in DOMAIN log :
               k > 1 => /\ frame.responses[k - 1].kind = "page"
                        /\ frame.responses[k - 1].next_page = Some(log[k].page)
        /\ (pc = "idle" /\ result = "ok") =>
               /\ log # <<>>
               /\ frame.responses[Len(log)].next_page = None
               /\ frame.files = DataOf(frame.responses, Len(log))

\* C30: get_files asks for page 0 and then for the page each answer names
\* as next_page, until an answer names none; it then returns the data of
\* the answers to its requests, one after another, and no other; and with
\* a service that names no next page in the end, every call returns or
\* raises.
C30_PagingFollowsAndEnds ==
    /\ []PagesFollowed
    /\ (pc = "gf_page") ~> (pc = "idle")

C30_Witness ==
    /\ ReturnedFrom("get_files")
    /\ result = "ok"
    /\ Len(log) = 3
    /\ log[2].page = 2
    /\ log[3].page = 1
    /\ frame.files = <<2, 3, 1>>

(***************************************************************************)
(* The cancel flag across operations of one FileJumpApi: post_file,        *)
(* FileJumpApi.read, FjOperations.read and delete, one after another, and  *)
(* another thread that sets the flag at any moment.  Nothing in the        *)
(* program sets the flag; lines 150 and 318 of FileJumpApi.py clear it.    *)
(***************************************************************************)
\* the remote holds folders only, two at most; a read takes one file
CancelTrees ==
    {t \in Trees : /\ WellFormedTree(t)
                   /\ Cardinality(t) <= 2
                   /\ \A e \in t : e.type = "folder"}

CancelReadLists == ListsOfLen(ReadableFiles, 1)

InitCancel ==
    /\ remote \in CancelTrees
    /\ nextId = MaxEntries + 1
    /\ cancel \in BOOLEAN
    /\ all_fj_entries = None
    /\ all_fj_folders = None
    /\ log = <<>>
    /\ pc = "idle"
    /\ result = "none"
    /\ frame = NoFrame
    /\ ops = 0
    /\ prev = NoCall
    /\ segment = ""
    /\ mangled = None
    /\ token = None
    /\ reader = None

NextCancel ==
    \/ \E size \in 1..MaxBytes : post_file(size)
    \/ pf_request
    \/ pf_read
    \/ pf_block
    \/ pf_response
    \/ pf_timeout
    \/ pf_exception
    \/ \E files_list \in CancelReadLists : api_read(files_list)
    \/ \E files_list \in CancelReadLists : ops_read(files_list)
    \/ rd_file
    \/ rd_stream
    \/ \E file_list \in FileLists(remote) : delete(file_list)
    \/ delete_entries
    \/ delete_read_tree
    \/ delete_scan
    \/ delete_prune
    \/ SetCancel

SpecCancel == InitCancel /\ [][NextCancel]_vars

\* a step that enters post_file or FileJumpApi.read
Clears ==
    /\ ops' = ops + 1
    /\ \/ frame'.op = "post_file"
       \/ frame'.op = "read" /\ frame'.api

\* post_file has returned None from "except Exception" with the flag set
\* (line 209)
ReturnedCancelled ==
    /\ ReturnedFrom("post_file")
    /\ result = "None"
    /\ frame.cancelled_at # Never

\* C34: post_file returns its cancelled result with the flag set; a set
\* flag is cleared by no step but the entry of a post_file or of a
\* FileJumpApi.read; and the tree read of a delete that finds the flag set
\* issues no request and returns empty lists, leaving the flag set.
C34_FlagStaysSet ==
    /\ [](ReturnedCancelled => cancel)
    /\ [][ /\ (cancel /\ ~cancel') => Clears
           /\ (cancel /\ frame.op = "delete" /\ pc = "read_tree"
                  /\ pc' # "read_tree")
              => /\ log' = log
                 /\ pc' = "scan"
                 /\ frame'.folders = <<>>
                 /\ cancel' ]_vars

C34_Witness ==
    /\ frame.op = "delete"
    /\ pc = "idle"
    /\ result = "ok"
    /\ prev.call.op = "post_file"
    /\ prev.result = "None"
    /\ cancel
    /\ Len(log) = 1
    /\ \E e \in remote : e.type = "folder" /\ ~HasChildren(remote, e.id)

\* C35: the step that enters post_file or FileJumpApi.read leaves the flag
\* cleared, whatever it was; and while the flag has not been set again
\* during the call it reads False, so such a post_file is not cut short:
\* it returns None only for the response to the whole body.
C35_EntryClearsFlag ==
    /\ [][Clears => ~cancel']_vars
    /\ []( ( /\ frame.op = "post_file" \/ (frame.op = "read" /\ frame.api)
             /\ frame.cancelled_at = Never )
           => /\ pc # "idle" => ~cancel
              /\ (frame.op = "post_file" /\ pc = "idle" /\ result = "None")
                     => frame.bytes_read = frame.size )

C35_Witness ==
    /\ ReturnedFrom("post_file")
    /\ frame.flag_on_entry
    /\ frame.cancelled_at = Never
    /\ ~cancel
    /\ result = "ok"
    /\ frame.sent = frame.size

====
